---- MODULE Spec2Model ----
(***************************************************************************)
(* indra_db: single-file content-addressed object store, merkle radix trie *)
(* and the Database facade (working tree, commit, checkout).               *)
(*                                                                         *)
(* Hashes are modelled by their preimage (a collision-free digest): the    *)
(* hash of a blob is the pair <<type byte, payload>>.  Byte strings (keys, *)
(* ref names, thought ids) are sequences of small integers.                *)
(***************************************************************************)
EXTENDS Integers, Sequences, FiniteSets, TLC

VARIABLES
    store,      \* ObjectStore: index, refs, head, write_offset and the file
    pc,         \* position of the owning process (idle, inside sync, crashed)
    root,       \* MerkleTrie.root of the trie under test
    model,      \* the key/value map the trie is meant to hold
    ret,        \* value returned by the last trie or store call
    wt,         \* Database.working_tree
    synced,     \* index, refs and head as of the last completed sync
    nops        \* number of operations performed so far

vars == <<store, pc, root, model, ret, wt, synced, nops>>

\* a local binding: With(v, LAMBDA x : e) is e with x bound to the value v
With(v, Op(_)) == Op(v)

(***************************************************************************)
(* Hash (model/hash.rs) and Blob (store/blob.rs)                           *)
(***************************************************************************)
ZERO == <<-1>>
NONE == <<-2>>

is_zero(h) == h = ZERO

as_byte(blob_type) ==
    CASE blob_type = "Thought" -> 0
      [] blob_type = "Edge"    -> 1
      [] blob_type = "Commit"  -> 2
      [] blob_type = "Tree"    -> 3

from_byte(b) ==
    CASE b = 0 -> "Thought"
      [] b = 1 -> "Edge"
      [] b = 2 -> "Commit"
      [] b = 3 -> "Tree"
      [] OTHER -> "Invalid"

Blob(blob_type, data) == [blob_type |-> blob_type, data |-> data]

\* Blob::hash: digest over [type byte || payload]
BlobHash(blob) == <<as_byte(blob.blob_type), blob.data>>

\* length in bytes of the zstd frame of a payload (every payload of the model
\* compresses to the same length)
ZstdLen == 20

\* Blob::compress: the type byte followed by the compressed payload
Compress(blob) == [type_byte |-> as_byte(blob.blob_type), z |-> blob.data]

CompressedLen(blob) == 1 + ZstdLen

\* Blob::decompress
Decompress(bytes) ==
    IF from_byte(bytes.type_byte) = "Invalid"
    THEN [ok |-> FALSE, err |-> "Corruption"]
    ELSE [ok |-> TRUE, blob |-> Blob(from_byte(bytes.type_byte), bytes.z)]

(***************************************************************************)
(* The file: header fields and the bytes after the header.  The bytes are  *)
(* kept as the extents written so far: offset -> [len, rec]; a write       *)
(* destroys every extent it overlaps.                                      *)
(***************************************************************************)
HEADER_SIZE == 64
INDEX_ENTRY_SIZE == 44
HASH_SIZE == 32
HEAD_AREA_SIZE == 14

MAIN == <<109, 97, 105, 110>>

GARBAGE == <<"garbage">>

Overlaps(o1, l1, o2, l2) == o1 < o2 + l2 /\ o2 < o1 + l1

WriteAt(data, off, len, rec) ==
    LET keep == {o \in DOMAIN data : ~Overlaps(o, data[o].len, off, len)}
    IN  [o \in keep \cup {off} |->
            IF o = off THEN [len |-> len, rec |-> rec] ELSE data[o]]

ReadAt(data, off, len) ==
    IF off \in DOMAIN data /\ data[off].len = len THEN data[off].rec ELSE GARBAGE

ZeroPad(n) == [i \in 1..n |-> 0]

\* ObjectStore::create: header with object_count = 0, index_offset = 0
NewFile ==
    [object_count |-> 0, index_offset |-> 0, refs_offset |-> 0, refs_count |-> 0,
     head_len |-> 0, head_area |-> ZeroPad(HEAD_AREA_SIZE), data |-> <<>>]

FileEnd(file) ==
    LET ends == {o + file.data[o].len : o \in DOMAIN file.data}
    IN  IF ends = {} THEN HEADER_SIZE
        ELSE CHOOSE e \in ends : \A f \in ends : f <= e

create ==
    [index |-> <<>>, refs |-> (MAIN :> ZERO), head |-> MAIN,
     write_offset |-> HEADER_SIZE, file |-> NewFile]

contains(S, hash) == hash \in DOMAIN S.index

object_count(S) == Cardinality(DOMAIN S.index)

\* put without the index lookup: every call appends
put_NoDedup(S, blob) ==
    LET hash == BlobHash(blob)
        size == CompressedLen(blob)
        offset == S.write_offset
    IN  [store |->
            [S EXCEPT !.file.data = WriteAt(@, offset, size, <<"blob", Compress(blob)>>),
                      !.write_offset = offset + size,
                      !.index = (hash :> [offset |-> offset, size |-> size]) @@ @],
         hash |-> hash, early |-> hash \in DOMAIN S.index]

\* ObjectStore::put
put(S, blob) ==
    LET hash == BlobHash(blob)
        size == CompressedLen(blob)
        offset == S.write_offset
    IN  IF hash \in DOMAIN S.index
        THEN [store |-> S, hash |-> hash, early |-> TRUE]
        ELSE [store |->
                [S EXCEPT !.file.data = WriteAt(@, offset, size, <<"blob", Compress(blob)>>),
                          !.write_offset = offset + size,
                          !.index = (hash :> [offset |-> offset, size |-> size]) @@ @],
              hash |-> hash, early |-> FALSE]

\* ObjectStore::get
get(S, hash) ==
    IF hash \notin DOMAIN S.index
    THEN [ok |-> FALSE, err |-> "NotFound"]
    ELSE LET entry == S.index[hash]
             bytes == ReadAt(S.file.data, entry.offset, entry.size)
         IN  IF bytes[1] # "blob"
             THEN [ok |-> FALSE, err |-> "Corruption"]
             ELSE Decompress(bytes[2])

(***************************************************************************)
(* TrieNode (trie/node.rs) and MerkleTrie (trie/tree.rs)                   *)
(***************************************************************************)
Empty == [kind |-> "Empty"]
Leaf(key_suffix, value) == [kind |-> "Leaf", key_suffix |-> key_suffix, value |-> value]
Branch(prefix, children, value) ==
    [kind |-> "Branch", prefix |-> prefix, children |-> children, value |-> value]

is_empty(node) == node.kind = "Empty"

\* bincode::serialize / bincode::deserialize of a TrieNode: the payload of a
\* Tree blob carries the variant and its fields
SerializeNode(node) == <<"TrieNode", node>>
DeserializeNode(data) == data[2]

Drop(s, n) == SubSeq(s, n + 1, Len(s))
Take(s, n) == SubSeq(s, 1, n)
starts_with(s, p) == Len(p) <= Len(s) /\ Take(s, Len(p)) = p

\* a comparison that finds no common prefix
common_prefix_len_None(a, b) == 0

\* common_prefix_len: a.iter().zip(b.iter()).take_while(|(x, y)| x == y).count()
common_prefix_len(a, b) ==
    LET m == IF Len(a) < Len(b) THEN Len(a) ELSE Len(b)
        agree == {n \in 0..m : \A i \in 1..n : a[i] = b[i]}
    IN  CHOOSE n \in agree : \A k \in agree : k <= n

\* MerkleTrie::persist_node
persist_node(S, node) == put(S, Blob("Tree", SerializeNode(node)))

\* MerkleTrie::load_node (the node cache only saves reads of the store)
load_node(S, hash) ==
    With(get(S, hash), LAMBDA r :
        IF ~r.ok THEN r
        ELSE IF r.blob.blob_type # "Tree" THEN [ok |-> FALSE, err |-> "Corruption"]
        ELSE [ok |-> TRUE, node |-> DeserializeNode(r.blob.data)])

\* an insert into a leaf that replaces the leaf, whatever key it holds
InsertLeaf_Replace(S, node, remaining, value) ==
    [ok |-> TRUE, store |-> S, node |-> Leaf(remaining, value)]

\* the Leaf arm of insert_recursive: same key updates, otherwise split
InsertLeaf(S, node, remaining, value) ==
    LET key_suffix == node.key_suffix
        existing_value == node.value
        common_len == common_prefix_len(remaining, key_suffix)
        common == Take(remaining, common_len)
        hasOld == common_len < Len(key_suffix)
        hasNew == common_len < Len(remaining)
        branch_value == IF common_len = Len(remaining) THEN value
                        ELSE IF common_len = Len(key_suffix) THEN existing_value
                        ELSE NONE
    IN  IF key_suffix = remaining
        THEN [ok |-> TRUE, store |-> S, node |-> Leaf(remaining, value)]
        ELSE
        With(IF hasOld
             THEN persist_node(S, Leaf(Drop(key_suffix, common_len + 1), existing_value))
             ELSE [store |-> S, hash |-> ZERO],
             LAMBDA p1 :
        With(IF hasNew
             THEN persist_node(p1.store, Leaf(Drop(remaining, common_len + 1), value))
             ELSE [store |-> p1.store, hash |-> ZERO],
             LAMBDA p2 :
        LET c1 == IF hasOld THEN (key_suffix[common_len + 1] :> p1.hash) ELSE <<>>
            c2 == IF hasNew THEN (remaining[common_len + 1] :> p2.hash) @@ c1 ELSE c1
        IN  [ok |-> TRUE, store |-> p2.store, node |-> Branch(common, c2, branch_value)]))

\* the Branch arm of insert_recursive when the key leaves the branch prefix
SplitBranch(S, node, remaining, value) ==
    LET common_len == common_prefix_len(remaining, node.prefix)
        common == Take(remaining, common_len)
        old_suffix == Drop(node.prefix, common_len)
        old_first == old_suffix[1]
        old_branch == Branch(Drop(old_suffix, 1), node.children, node.value)
        endsHere == common_len = Len(remaining)
        new_suffix == Drop(remaining, common_len)
        new_value == IF endsHere THEN value ELSE NONE
    IN  With(persist_node(S, old_branch), LAMBDA p1 :
        With(IF endsHere THEN [store |-> p1.store, hash |-> ZERO]
             ELSE persist_node(p1.store, Leaf(Drop(new_suffix, 1), value)),
             LAMBDA p2 :
        LET c1 == (old_first :> p1.hash)
            new_children == IF endsHere THEN c1 ELSE (new_suffix[1] :> p2.hash) @@ c1
        IN  [ok |-> TRUE, store |-> p2.store,
             node |-> Branch(common, new_children, new_value)]))

RECURSIVE insert_recursive(_, _, _, _)
\* MerkleTrie::insert_recursive (depth is 0 at every call: remaining = key)
insert_recursive(S, node, remaining, value) ==
    CASE node.kind = "Empty" ->
            [ok |-> TRUE, store |-> S, node |-> Leaf(remaining, value)]
      [] node.kind = "Leaf" -> InsertLeaf(S, node, remaining, value)
      [] node.kind = "Branch" ->
            IF common_prefix_len(remaining, node.prefix) < Len(node.prefix)
            THEN SplitBranch(S, node, remaining, value)
            ELSE
            LET after_prefix == Drop(remaining, Len(node.prefix))
                next_byte == after_prefix[1]
            IN  IF after_prefix = <<>>
                THEN [ok |-> TRUE, store |-> S,
                      node |-> Branch(node.prefix, node.children, value)]
                ELSE IF next_byte \in DOMAIN node.children
                THEN With(load_node(S, node.children[next_byte]), LAMBDA child :
                     IF ~child.ok THEN [ok |-> FALSE, store |-> S, node |-> node]
                     ELSE
                     With(insert_recursive(S, child.node, Drop(after_prefix, 1), value),
                          LAMBDA r :
                     IF ~r.ok THEN [ok |-> FALSE, store |-> r.store, node |-> node]
                     ELSE
                     With(persist_node(r.store, r.node), LAMBDA p :
                     [ok |-> TRUE, store |-> p.store,
                      node |-> Branch(node.prefix,
                                      (next_byte :> p.hash) @@ node.children,
                                      node.value)])))
                ELSE With(persist_node(S, Leaf(Drop(after_prefix, 1), value)), LAMBDA p :
                     [ok |-> TRUE, store |-> p.store,
                      node |-> Branch(node.prefix,
                                      (next_byte :> p.hash) @@ node.children,
                                      node.value)])

RECURSIVE get_recursive(_, _, _)
\* MerkleTrie::get_recursive
get_recursive(S, node, remaining) ==
    CASE node.kind = "Empty" -> [ok |-> TRUE, value |-> NONE]
      [] node.kind = "Leaf" ->
            [ok |-> TRUE, value |-> IF node.key_suffix = remaining THEN node.value ELSE NONE]
      [] node.kind = "Branch" ->
            IF ~starts_with(remaining, node.prefix) THEN [ok |-> TRUE, value |-> NONE]
            ELSE LET after_prefix == Drop(remaining, Len(node.prefix))
                 IN  IF after_prefix = <<>> THEN [ok |-> TRUE, value |-> node.value]
                     ELSE IF after_prefix[1] \in DOMAIN node.children
                     THEN With(get(S, node.children[after_prefix[1]]), LAMBDA r :
                          IF ~r.ok THEN [ok |-> FALSE, value |-> NONE]
                          ELSE get_recursive(S, DeserializeNode(r.blob.data),
                                             Drop(after_prefix, 1)))
                     ELSE [ok |-> TRUE, value |-> NONE]

Without(f, k) == [x \in DOMAIN f \ {k} |-> f[x]]

RECURSIVE remove_recursive(_, _, _)
\* MerkleTrie::remove_recursive
remove_recursive(S, node, remaining) ==
    CASE node.kind = "Empty" -> [ok |-> TRUE, store |-> S, node |-> Empty, removed |-> NONE]
      [] node.kind = "Leaf" ->
            IF node.key_suffix = remaining
            THEN [ok |-> TRUE, store |-> S, node |-> Empty, removed |-> node.value]
            ELSE [ok |-> TRUE, store |-> S, node |-> node, removed |-> NONE]
      [] node.kind = "Branch" ->
            IF ~starts_with(remaining, node.prefix)
            THEN [ok |-> TRUE, store |-> S, node |-> node, removed |-> NONE]
            ELSE
            LET after_prefix == Drop(remaining, Len(node.prefix))
                next_byte == after_prefix[1]
            IN  IF after_prefix = <<>>
                THEN IF DOMAIN node.children = {}
                     THEN [ok |-> TRUE, store |-> S, node |-> Empty, removed |-> node.value]
                     ELSE [ok |-> TRUE, store |-> S,
                           node |-> Branch(node.prefix, node.children, NONE),
                           removed |-> node.value]
                ELSE IF next_byte \notin DOMAIN node.children
                THEN [ok |-> TRUE, store |-> S, node |-> node, removed |-> NONE]
                ELSE
                With(load_node(S, node.children[next_byte]), LAMBDA child :
                IF ~child.ok
                THEN [ok |-> FALSE, store |-> S, node |-> node, removed |-> NONE]
                ELSE
                With(remove_recursive(S, child.node, Drop(after_prefix, 1)), LAMBDA r :
                IF ~r.ok \/ r.removed = NONE
                THEN [ok |-> r.ok, store |-> r.store, node |-> node, removed |-> NONE]
                ELSE
                With(IF is_empty(r.node) THEN [store |-> r.store, hash |-> ZERO]
                     ELSE persist_node(r.store, r.node),
                     LAMBDA p :
                LET new_children ==
                        IF is_empty(r.node) THEN Without(node.children, next_byte)
                        ELSE (next_byte :> p.hash) @@ node.children
                IN  IF DOMAIN new_children = {} /\ node.value = NONE
                    THEN [ok |-> TRUE, store |-> p.store, node |-> Empty,
                          removed |-> r.removed]
                    ELSE [ok |-> TRUE, store |-> p.store,
                          node |-> Branch(node.prefix, new_children, node.value),
                          removed |-> r.removed])))

\* an insert that keeps the value of a key the trie already holds
insert_KeepOld(S, node, key, value) ==
    IF get_recursive(S, node, key).value # NONE
    THEN [ok |-> TRUE, store |-> S, node |-> node]
    ELSE insert_recursive(S, node, key, value)

\* MerkleTrie::insert, get, remove on the pair (store, root)
insert(S, node, key, value) == insert_recursive(S, node, key, value)
trie_get(S, node, key) == get_recursive(S, node, key)
remove(S, node, key) == remove_recursive(S, node, key)

\* Hash::digest of a byte string
digest(data) == <<-3, data>>

(***************************************************************************)
(* Specification SpecTrie: a MerkleTrie over a newly created store, driven *)
(* by insert and remove.                                                   *)
(***************************************************************************)
MaxTrieOps == 4

TrieBytes == {1, 2}
TrieKeys == {<<>>} \cup {<<a>> : a \in TrieBytes} \cup {<<a, b>> : a, b \in TrieBytes}
TrieValues == {digest(<<"bytes", "v1">>), digest(<<"bytes", "v2">>)}

EmptyWT ==
    [thoughts |-> <<>>, edges |-> <<>>, removed_thoughts |-> {}, removed_edges |-> {},
     dirty |-> FALSE]

\* what a completed sync of S makes durable
Durable(S) == [any |-> TRUE, index |-> S.index, refs |-> S.refs, head |-> S.head]

\* before the first sync the file holds the header written by create
NeverSynced == [any |-> FALSE, index |-> <<>>, refs |-> (MAIN :> ZERO), head |-> MAIN]

\* where the owning process is: idle between calls, before the i-th write of a
\* sync, crashed, closed (store dropped) or corrupt (open did not load the file)
At(where) == [at |-> where, i |-> 0]
Idle == At("idle")

InitTrie ==
    /\ store = create
    /\ pc = Idle
    /\ root = Empty
    /\ model = [k \in TrieKeys |-> NONE]
    /\ ret = NONE
    /\ wt = EmptyWT
    /\ synced = NeverSynced
    /\ nops = 0

\* MerkleTrie::insert: the root is replaced only when the rebuild succeeded
TrieInsert(k, v) ==
    /\ nops < MaxTrieOps
    /\ LET r == insert(store, root, k, v)
       IN  /\ store' = r.store
           /\ root' = IF r.ok THEN r.node ELSE root
           /\ model' = IF r.ok THEN [model EXCEPT ![k] = v] ELSE model
    /\ ret' = NONE
    /\ nops' = nops + 1
    /\ UNCHANGED <<pc, wt, synced>>

\* MerkleTrie::remove
TrieRemove(k) ==
    /\ nops < MaxTrieOps
    /\ LET r == remove(store, root, k)
       IN  /\ store' = r.store
           /\ root' = IF r.ok THEN r.node ELSE root
           /\ model' = IF r.ok THEN [model EXCEPT ![k] = NONE] ELSE model
           /\ ret' = r.removed
    /\ nops' = nops + 1
    /\ UNCHANGED <<pc, wt, synced>>

NextTrie ==
    \/ \E k \in TrieKeys, v \in TrieValues : TrieInsert(k, v)
    \/ \E k \in TrieKeys : TrieRemove(k)

SpecTrie == InitTrie /\ [][NextTrie]_vars

\* MerkleTrie::get on the trie under test
Lookup(k) == trie_get(store, root, k)

\* C1: get(k) is the value of the latest insert of k not followed by a remove
\* of k, absent otherwise (so an operation on k changes get for no other key),
\* and remove(k) returns what get(k) returned just before it.
C1_TrieIsMap ==
    /\ [](\A k \in TrieKeys : Lookup(k) = [ok |-> TRUE, value |-> model[k]])
    /\ [][\A k \in TrieKeys : TrieRemove(k) => ret' = Lookup(k).value]_vars

\* a key stored on a branch node next to a longer key, after a remove that
\* returned a value
C1_Witness ==
    /\ root.kind = "Branch"
    /\ root.value # NONE
    /\ DOMAIN root.children # {}
    /\ ret # NONE

(***************************************************************************)
(* ObjectStore refs, sync and open (store/file_store.rs)                   *)
(***************************************************************************)
Min(a, b) == IF a < b THEN a ELSE b

\* byte-wise order of two names (String::cmp)
RECURSIVE LexLess(_, _)
LexLess(a, b) ==
    IF b = <<>> THEN FALSE
    ELSE IF a = <<>> THEN TRUE
    ELSE IF a[1] # b[1] THEN a[1] < b[1]
    ELSE LexLess(Tail(a), Tail(b))

\* ref_list.sort_by_key(|(name, _)| *name)
RECURSIVE SortNames(_)
SortNames(names) ==
    IF names = {} THEN <<>>
    ELSE LET least == CHOOSE n \in names : \A m \in names \ {n} : LexLess(n, m)
         IN  <<least>> \o SortNames(names \ {least})

\* entries.sort_by_key(|(h, _)| h.as_bytes()): the order of the digests is a
\* fixed total order of the hashes
RECURSIVE SortHashes(_)
SortHashes(hashes) ==
    IF hashes = {} THEN <<>>
    ELSE LET first == CHOOSE h \in hashes : TRUE
         IN  <<first>> \o SortHashes(hashes \ {first})

set_head(S, ref_name) ==
    IF ref_name \notin DOMAIN S.refs
    THEN [ok |-> FALSE, store |-> S]
    ELSE [ok |-> TRUE, store |-> [S EXCEPT !.head = ref_name]]

get_ref(S, ref_name) == IF ref_name \in DOMAIN S.refs THEN S.refs[ref_name] ELSE NONE

set_ref(S, ref_name, commit_hash) ==
    [S EXCEPT !.refs = (ref_name :> commit_hash) @@ @]

\* refs.get(head).copied().filter(|h| !h.is_zero())
head_commit(S) ==
    IF S.head \in DOMAIN S.refs /\ ~is_zero(S.refs[S.head]) THEN S.refs[S.head] ELSE NONE

create_branch(S, name, commit_hash) ==
    IF name \in DOMAIN S.refs
    THEN [ok |-> FALSE, store |-> S]
    ELSE [ok |-> TRUE, store |-> [S EXCEPT !.refs = (name :> commit_hash) @@ @]]

delete_branch(S, name) ==
    IF S.head = name \/ name \notin DOMAIN S.refs
    THEN [ok |-> FALSE, store |-> S]
    ELSE [ok |-> TRUE, store |-> [S EXCEPT !.refs = Without(@, name)]]

RefEntryLen(name) == 2 + Len(name) + HASH_SIZE

RECURSIVE RefWrites(_, _, _)
RefWrites(S, names, off) ==
    IF names = <<>> THEN <<>>
    ELSE <<[to |-> "data", off |-> off, len |-> RefEntryLen(Head(names)),
            rec |-> <<"ref", Head(names), S.refs[Head(names)]>>]>>
         \o RefWrites(S, Tail(names), off + RefEntryLen(Head(names)))

\* the refs table placed on top of the index
RefsOffset_NoIndex(write_offset, n) == write_offset

\* sync: refs_offset = write_offset + index_size
RefsOffset(write_offset, n) == write_offset + n * INDEX_ENTRY_SIZE

\* ObjectStore::sync: the writes it issues, in program order.  The index is
\* written from write_offset on and the refs follow it at the file position.
SyncWrites(S) ==
    LET write_offset == S.write_offset
        hashes == SortHashes(DOMAIN S.index)
        n == Len(hashes)
        refs_offset == RefsOffset(write_offset, n)
        head_slice == Take(S.head, Min(Len(S.head), HEAD_AREA_SIZE))
    IN  <<[to |-> "hdr16", object_count |-> n, index_offset |-> write_offset],
          [to |-> "hdr32", refs_offset |-> refs_offset,
           refs_count |-> Cardinality(DOMAIN S.refs)],
          [to |-> "hdr48", head_len |-> Len(S.head), head_slice |-> head_slice]>>
        \o [i \in 1..n |->
              [to |-> "data", off |-> write_offset + (i - 1) * INDEX_ENTRY_SIZE,
               len |-> INDEX_ENTRY_SIZE,
               rec |-> <<"idx", hashes[i], S.index[hashes[i]].offset,
                         S.index[hashes[i]].size>>]]
        \o RefWrites(S, SortNames(DOMAIN S.refs), write_offset + n * INDEX_ENTRY_SIZE)

ApplyWrite(file, w) ==
    CASE w.to = "hdr16" ->
            [file EXCEPT !.object_count = w.object_count, !.index_offset = w.index_offset]
      [] w.to = "hdr32" ->
            [file EXCEPT !.refs_offset = w.refs_offset, !.refs_count = w.refs_count]
      [] w.to = "hdr48" ->
            [file EXCEPT !.head_len = w.head_len,
                         !.head_area = [i \in 1..HEAD_AREA_SIZE |->
                             IF i <= Len(w.head_slice) THEN w.head_slice[i] ELSE @[i]]]
      [] w.to = "data" ->
            [file EXCEPT !.data = WriteAt(@, w.off, w.len, w.rec)]

RECURSIVE ApplyWrites(_, _)
ApplyWrites(file, ws) ==
    IF ws = <<>> THEN file ELSE ApplyWrites(ApplyWrite(file, Head(ws)), Tail(ws))

\* ObjectStore::sync run to completion
sync(S) == [S EXCEPT !.file = ApplyWrites(@, SyncWrites(S))]

RECURSIVE ReadIndex(_, _, _)
\* open: the loop over object_count index entries
ReadIndex(file, i, acc) ==
    IF i = file.object_count THEN [ok |-> TRUE, index |-> acc]
    ELSE LET e == ReadAt(file.data, file.index_offset + i * INDEX_ENTRY_SIZE,
                         INDEX_ENTRY_SIZE)
         IN  IF e[1] # "idx" THEN [ok |-> FALSE, index |-> acc]
             ELSE ReadIndex(file, i + 1,
                            (e[2] :> [offset |-> e[3], size |-> e[4]]) @@ acc)

RECURSIVE ReadRefs(_, _, _, _)
\* open: the loop over refs_count refs entries
ReadRefs(file, off, left, acc) ==
    IF left = 0 THEN [ok |-> TRUE, refs |-> acc]
    ELSE IF off \notin DOMAIN file.data \/ file.data[off].rec[1] # "ref"
    THEN [ok |-> FALSE, refs |-> acc]
    ELSE LET x == file.data[off]
         IN  ReadRefs(file, off + x.len, left - 1, (x.rec[2] :> x.rec[3]) @@ acc)

\* an open that resumes writing right after the header
OpenWriteOffset_Start(file) == HEADER_SIZE

\* open: where writing resumes, at the index table when the header names one
OpenWriteOffset(file) ==
    IF file.index_offset > 0 THEN file.index_offset ELSE FileEnd(file)

\* ObjectStore::open.  ok is FALSE when the bytes at the header's offsets are
\* not the entries of a written table: the call then fails or loads entries
\* decoded from unrelated bytes.
open(file) ==
    LET head_name == IF file.head_len > 0 /\ file.head_len <= HEAD_AREA_SIZE
                     THEN Take(file.head_area, file.head_len)
                     ELSE MAIN
        idx == IF file.index_offset > 0 /\ file.object_count > 0
               THEN ReadIndex(file, 0, <<>>)
               ELSE [ok |-> TRUE, index |-> <<>>]
        rfs == IF file.refs_offset > 0 /\ file.refs_count > 0
               THEN ReadRefs(file, file.refs_offset, file.refs_count, <<>>)
               ELSE [ok |-> TRUE, refs |-> <<>>]
        refs == IF DOMAIN rfs.refs = {} THEN (MAIN :> ZERO) ELSE rfs.refs
        write_offset == OpenWriteOffset(file)
    IN  [ok |-> idx.ok /\ rfs.ok,
         store |-> [index |-> idx.index, refs |-> refs, head |-> head_name,
                    write_offset |-> write_offset, file |-> file]]

(***************************************************************************)
(* Commit (model/commit.rs) and BranchManager (ops/branch.rs)              *)
(***************************************************************************)
\* Commit::initial / Commit::child; msg stands for message, author and timestamp
NewCommit(tree, parent, msg) ==
    [tree |-> tree, parents |-> IF parent = NONE THEN <<>> ELSE <<parent>>,
     message |-> msg]

put_commit(S, commit) == put(S, Blob("Commit", <<"Commit", commit>>))

get_commit(S, hash) ==
    With(get(S, hash), LAMBDA r :
        IF ~r.ok THEN r
        ELSE IF r.blob.blob_type # "Commit" THEN [ok |-> FALSE, err |-> "Corruption"]
        ELSE [ok |-> TRUE, commit |-> r.blob.data[2]])

\* a commit that always advances main instead of the current branch
manager_commit_Main(S, tree_hash, msg) ==
    LET p == put_commit(S, NewCommit(tree_hash, head_commit(S), msg))
    IN  [store |-> set_ref(p.store, MAIN, p.hash), hash |-> p.hash]

\* BranchManager::commit
manager_commit(S, tree_hash, msg) ==
    With(put_commit(S, NewCommit(tree_hash, head_commit(S), msg)), LAMBDA p :
        [store |-> set_ref(p.store, p.store.head, p.hash), hash |-> p.hash])

(***************************************************************************)
(* Specification SpecStore: one owner of an ObjectStore calling put,       *)
(* set_ref, create_branch, delete_branch, BranchManager::commit and sync,  *)
(* and dropping the store and opening the file again.                      *)
(***************************************************************************)
MaxStoreOps == 5

FEATURE == <<102, 101, 97, 116, 117, 114, 101>>

StoreNames == {MAIN, FEATURE}
StoreBlobs == {Blob("Thought", <<"Thought", "x">>), Blob("Edge", <<"Edge", "y">>)}
StoreTrees == {ZERO, BlobHash(Blob("Tree", SerializeNode(Empty)))}

\* the last call and what it returned
Ret(op, val) == [op |-> op, val |-> val, early |-> FALSE]

InitStore ==
    /\ store = create
    /\ pc = Idle
    /\ root = Empty
    /\ model = <<>>
    /\ ret = Ret("create", ZERO)
    /\ wt = EmptyWT
    /\ synced = NeverSynced
    /\ nops = 0

Step == pc = Idle /\ nops < MaxStoreOps /\ nops' = nops + 1

Put(b) ==
    /\ Step
    /\ LET r == put(store, b)
       IN  store' = r.store /\ ret' = [op |-> "put", val |-> r.hash, early |-> r.early]
    /\ UNCHANGED <<pc, root, model, wt, synced>>

SetRef(name, h) ==
    /\ Step
    /\ store' = set_ref(store, name, h)
    /\ ret' = Ret("set_ref", ZERO)
    /\ UNCHANGED <<pc, root, model, wt, synced>>

CreateBranch(name, h) ==
    /\ Step
    /\ store' = create_branch(store, name, h).store
    /\ ret' = Ret("create_branch", ZERO)
    /\ UNCHANGED <<pc, root, model, wt, synced>>

DeleteBranch(name) ==
    /\ Step
    /\ store' = delete_branch(store, name).store
    /\ ret' = Ret("delete_branch", ZERO)
    /\ UNCHANGED <<pc, root, model, wt, synced>>

StoreCommit(tree, msg) ==
    /\ Step
    /\ LET r == manager_commit(store, tree, msg)
       IN  store' = r.store /\ ret' = Ret("commit", r.hash)
    /\ UNCHANGED <<pc, root, model, wt, synced>>

Sync ==
    /\ Step
    /\ store' = sync(store)
    /\ synced' = Durable(store)
    /\ ret' = Ret("sync", ZERO)
    /\ UNCHANGED <<pc, root, model, wt>>

\* Drop for ObjectStore (a best-effort sync), then ObjectStore::open of the file
Reopen ==
    /\ Step
    /\ LET o == open(sync(store).file)
       IN  /\ store' = o.store
           /\ pc' = IF o.ok THEN Idle ELSE At("corrupt")
    /\ synced' = Durable(store)
    /\ ret' = Ret("open", ZERO)
    /\ UNCHANGED <<root, model, wt>>

RefTargets == {ZERO} \cup {h \in DOMAIN store.index : h[1] = as_byte("Commit")}

NextStore ==
    \/ \E b \in StoreBlobs : Put(b)
    \/ \E name \in StoreNames, h \in RefTargets : SetRef(name, h)
    \/ \E name \in StoreNames, h \in RefTargets : CreateBranch(name, h)
    \/ \E name \in StoreNames : DeleteBranch(name)
    \/ \E t \in StoreTrees : StoreCommit(t, "m")
    \/ Sync
    \/ Reopen

SpecStore == InitStore /\ [][NextStore]_vars

\* C7: a sync followed by open of the same file yields an index with the same
\* hashes, each returning the same blob, and the same refs table.
C7_SyncOpenRoundTrip ==
    [][Reopen =>
        /\ pc' = Idle
        /\ DOMAIN store'.index = DOMAIN store.index
        /\ \A h \in DOMAIN store.index :
              get(store', h).ok /\ get(store', h) = get(store, h)
        /\ store'.refs = store.refs]_vars

\* a reopened store holding two objects and a second branch at a commit
C7_Witness ==
    /\ ret.op = "open"
    /\ object_count(store) >= 2
    /\ FEATURE \in DOMAIN store.refs
    /\ \E n \in DOMAIN store.refs : store.refs[n] # ZERO

\* C10: a second put of the same blob returns the same hash and leaves
\* object_count, the index entry and the write cursor unchanged.
C10_PutIdempotent ==
    [][\A b \in StoreBlobs :
        Put(b) =>
          /\ ret'.val = BlobHash(b)
          /\ contains(store, BlobHash(b)) =>
                /\ object_count(store') = object_count(store)
                /\ store'.index[BlobHash(b)] = store.index[BlobHash(b)]
                /\ store'.write_offset = store.write_offset]_vars

\* a put that found its blob in the index, with another object stored after it
C10_Witness ==
    /\ ret.op = "put"
    /\ ret.early
    /\ object_count(store) >= 2
    /\ store.index[ret.val].offset = HEADER_SIZE

(***************************************************************************)
(* Specification SpecCrash: the store's owner also moves HEAD, and the     *)
(* process can stop between any two writes; sync is taken write by write.  *)
(***************************************************************************)
BRANCH14 == <<102, 101, 97, 116, 117, 114, 101, 45, 98, 114, 97, 110, 99, 104>>
BRANCH15 == BRANCH14 \o <<49>>

CrashNames == {MAIN, BRANCH14, BRANCH15}

SetHead(name) ==
    /\ Step
    /\ store' = set_head(store, name).store
    /\ ret' = Ret("set_head", ZERO)
    /\ UNCHANGED <<pc, root, model, wt, synced>>

\* sync is called: its first write
SyncBegin ==
    /\ pc = Idle
    /\ nops < MaxStoreOps
    /\ nops' = nops + 1
    /\ store' = [store EXCEPT !.file = ApplyWrite(@, SyncWrites(store)[1])]
    /\ pc' = [at |-> "sync", i |-> 2]
    /\ ret' = Ret("sync", ZERO)
    /\ UNCHANGED <<root, model, wt, synced>>

\* the next write of the running sync
SyncWrite ==
    /\ pc.at = "sync"
    /\ pc.i <= Len(SyncWrites(store))
    /\ store' = [store EXCEPT !.file = ApplyWrite(@, SyncWrites(store)[pc.i])]
    /\ pc' = [pc EXCEPT !.i = @ + 1]
    /\ UNCHANGED <<root, model, ret, wt, synced, nops>>

\* file.sync_all() and return Ok
SyncEnd ==
    /\ pc.at = "sync"
    /\ pc.i > Len(SyncWrites(store))
    /\ pc' = Idle
    /\ synced' = Durable(store)
    /\ UNCHANGED <<store, root, model, ret, wt, nops>>

\* the process stops; the file keeps every byte written so far
Crash ==
    /\ pc.at \in {"idle", "sync"}
    /\ pc' = At("crashed")
    /\ UNCHANGED <<store, root, model, ret, wt, synced, nops>>

\* the store is dropped: Drop runs sync to completion
Close ==
    /\ Step
    /\ store' = sync(store)
    /\ synced' = Durable(store)
    /\ pc' = At("closed")
    /\ ret' = Ret("drop", ZERO)
    /\ UNCHANGED <<root, model, wt>>

\* ObjectStore::open by the next process
Open ==
    /\ pc.at \in {"crashed", "closed"}
    /\ LET o == open(store.file)
       IN  /\ store' = o.store
           /\ pc' = IF o.ok THEN Idle ELSE At("corrupt")
    /\ ret' = Ret("open", ZERO)
    /\ UNCHANGED <<root, model, wt, synced, nops>>

NextCrash ==
    \/ \E b \in StoreBlobs : Put(b)
    \/ \E name \in CrashNames : CreateBranch(name, ZERO)
    \/ \E name \in CrashNames : DeleteBranch(name)
    \/ \E name \in CrashNames : SetHead(name)
    \/ SyncBegin
    \/ SyncWrite
    \/ SyncEnd
    \/ Crash
    \/ Close
    \/ Open

SpecCrash == InitStore /\ [][NextCrash]_vars

\* C8: after a crash that follows a successful sync, open loads exactly the
\* index entries and refs written by the last successful sync.
C8_CrashRecovery ==
    [][(Open /\ pc.at = "crashed" /\ synced.any) =>
          /\ pc' = Idle
          /\ store'.index = synced.index
          /\ store'.refs = synced.refs]_vars

\* C9: after a sync and open of the file, head() returns the ref name it
\* returned before the sync, whatever the length of the name.
C9_HeadRoundTrip ==
    [][(Open /\ pc.at = "closed") => store'.head = store.head]_vars

(***************************************************************************)
(* MerkleTrie::list_prefix, GraphView (graph/traversal.rs)                 *)
(***************************************************************************)
\* from_root that starts every trie empty, whatever the root
from_root_Empty(S, root_hash) == [ok |-> TRUE, node |-> Empty]

\* MerkleTrie::from_root
from_root(S, root_hash) ==
    IF is_zero(root_hash) THEN [ok |-> TRUE, node |-> Empty] ELSE load_node(S, root_hash)

\* MerkleTrie::commit
trie_commit(S, node) ==
    IF is_empty(node) THEN [store |-> S, hash |-> ZERO, early |-> TRUE]
    ELSE persist_node(S, node)

\* the keys of a BTreeMap<u8, Hash> in iteration order
RECURSIVE Ascending(_)
Ascending(bytes) ==
    IF bytes = {} THEN <<>>
    ELSE LET least == CHOOSE b \in bytes : \A c \in bytes : b <= c
         IN  <<least>> \o Ascending(bytes \ {least})

RECURSIVE collect_prefix(_, _, _, _)
RECURSIVE collect_children(_, _, _, _, _)
\* MerkleTrie::collect_prefix: (full_key, value) pairs in visiting order
collect_prefix(S, node, prefix, current_key) ==
    CASE node.kind = "Empty" -> [ok |-> TRUE, results |-> <<>>]
      [] node.kind = "Leaf" ->
            LET full_key == current_key \o node.key_suffix
            IN  [ok |-> TRUE,
                 results |-> IF starts_with(full_key, prefix)
                             THEN <<<<full_key, node.value>>>> ELSE <<>>]
      [] node.kind = "Branch" ->
            LET current == current_key \o node.prefix
                own == IF node.value # NONE /\ starts_with(current, prefix)
                       THEN <<<<current, node.value>>>> ELSE <<>>
            IN  With(IF starts_with(current, prefix) \/ starts_with(prefix, current)
                     THEN collect_children(S, node.children,
                                           Ascending(DOMAIN node.children),
                                           prefix, current)
                     ELSE [ok |-> TRUE, results |-> <<>>],
                     LAMBDA below :
                [ok |-> below.ok, results |-> own \o below.results])

\* the loop over the children of a branch in collect_prefix
collect_children(S, children, bytes, prefix, current) ==
    IF bytes = <<>> THEN [ok |-> TRUE, results |-> <<>>]
    ELSE With(get(S, children[Head(bytes)]), LAMBDA r :
         IF ~r.ok THEN [ok |-> FALSE, results |-> <<>>]
         ELSE
         With(collect_prefix(S, DeserializeNode(r.blob.data), prefix,
                             current \o <<Head(bytes)>>),
              LAMBDA here :
         With(collect_children(S, children, Tail(bytes), prefix, current), LAMBDA rest :
         [ok |-> here.ok /\ rest.ok, results |-> here.results \o rest.results])))

\* a listing that ignores the prefix
list_prefix_All(S, node, prefix) == collect_prefix(S, node, <<>>, <<>>)

\* MerkleTrie::list_prefix
list_prefix(S, node, prefix) == collect_prefix(S, node, prefix, <<>>)

T_PREFIX == <<116, 58>>
E_PREFIX == <<101, 58>>
COLON == <<58>>

put_thought(S, thought) == put(S, Blob("Thought", <<"Thought", thought>>))
put_edge(S, edge) == put(S, Blob("Edge", <<"Edge", edge>>))

\* ObjectStore::get_thought; the thought is returned as an Option: <<>> or <<t>>
get_thought(S, hash) ==
    With(get(S, hash), LAMBDA r :
        IF ~r.ok \/ r.blob.blob_type # "Thought" THEN [ok |-> FALSE, thought |-> <<>>]
        ELSE [ok |-> TRUE, thought |-> <<r.blob.data[2]>>])

get_edge(S, hash) ==
    With(get(S, hash), LAMBDA r :
        IF ~r.ok \/ r.blob.blob_type # "Edge" THEN [ok |-> FALSE, edge |-> <<>>]
        ELSE [ok |-> TRUE, edge |-> <<r.blob.data[2]>>])

\* GraphView::new, the loop over list_prefix("t:"): a later entry for an id
\* replaces an earlier one
ThoughtIndex(results) ==
    LET ids == {Drop(results[i][1], 2) : i \in 1..Len(results)}
    IN  [id \in ids |->
            LET last == CHOOSE i \in 1..Len(results) :
                            /\ Drop(results[i][1], 2) = id
                            /\ \A j \in 1..Len(results) :
                                  Drop(results[j][1], 2) = id => j <= i
            IN  results[last][2]]

\* GraphView::new: thought_index from list_prefix("t:"), and every edge of
\* list_prefix("e:") loaded once
GraphView(S, root_hash) ==
    With(from_root(S, root_hash), LAMBDA trie :
    IF ~trie.ok THEN [ok |-> FALSE, thought_index |-> <<>>, edge_hashes |-> {}]
    ELSE
    With(list_prefix(S, trie.node, T_PREFIX), LAMBDA ts :
    With(list_prefix(S, trie.node, E_PREFIX), LAMBDA es :
    LET edge_hashes == {es.results[i][2] : i \in 1..Len(es.results)}
    IN  IF ~ts.ok \/ ~es.ok \/ \E h \in edge_hashes : ~get_edge(S, h).ok
        THEN [ok |-> FALSE, thought_index |-> <<>>, edge_hashes |-> {}]
        ELSE [ok |-> TRUE, thought_index |-> ThoughtIndex(ts.results),
              edge_hashes |-> edge_hashes])))

\* GraphView::get_thought
view_get_thought(S, view, id) ==
    IF id \in DOMAIN view.thought_index
    THEN get_thought(S, view.thought_index[id])
    ELSE [ok |-> TRUE, thought |-> <<>>]

(***************************************************************************)
(* Database (database.rs): the working tree over an ObjectStore            *)
(***************************************************************************)
\* Thought::with_id; content stands for content and updated_at
Thought(id, content) == [id |-> id, content |-> content]

\* Edge::new
Edge(source, target, edge_type) ==
    [source |-> source, target |-> target, edge_type |-> edge_type]

\* format!("{}:{}:{}", source, target, edge_type)
edge_key(edge) == edge.source \o COLON \o edge.target \o COLON \o edge.edge_type

\* format!("t:{}", id) and format!("e:{}", key)
ThoughtKey(id) == T_PREFIX \o id
EdgeKey(key) == E_PREFIX \o key

\* Database::head_tree
head_tree(S) ==
    IF head_commit(S) = NONE THEN [ok |-> TRUE, tree |-> ZERO]
    ELSE With(get_commit(S, head_commit(S)), LAMBDA c :
         IF c.ok THEN [ok |-> TRUE, tree |-> c.commit.tree]
         ELSE [ok |-> FALSE, tree |-> ZERO])

\* a get_thought that does not look at the tombstones
db_get_thought_NoTombstone(S, W, id) ==
    IF id \in DOMAIN W.thoughts THEN [ok |-> TRUE, thought |-> <<W.thoughts[id]>>]
    ELSE With(head_tree(S), LAMBDA base :
         IF ~base.ok THEN [ok |-> FALSE, thought |-> <<>>]
         ELSE IF is_zero(base.tree) THEN [ok |-> TRUE, thought |-> <<>>]
         ELSE With(GraphView(S, base.tree), LAMBDA view :
              IF ~view.ok THEN [ok |-> FALSE, thought |-> <<>>]
              ELSE view_get_thought(S, view, id)))

\* Database::get_thought
db_get_thought(S, W, id) ==
    IF id \in W.removed_thoughts THEN [ok |-> TRUE, thought |-> <<>>]
    ELSE IF id \in DOMAIN W.thoughts THEN [ok |-> TRUE, thought |-> <<W.thoughts[id]>>]
    ELSE With(head_tree(S), LAMBDA base :
         IF ~base.ok THEN [ok |-> FALSE, thought |-> <<>>]
         ELSE IF is_zero(base.tree) THEN [ok |-> TRUE, thought |-> <<>>]
         ELSE With(GraphView(S, base.tree), LAMBDA view :
              IF ~view.ok THEN [ok |-> FALSE, thought |-> <<>>]
              ELSE view_get_thought(S, view, id)))

\* GraphView::all_thoughts collected into the HashMap of list_thoughts
all_thoughts(S, view) ==
    With({get_thought(S, view.thought_index[id]) : id \in DOMAIN view.thought_index},
         LAMBDA loaded :
    LET found == {r.thought[1] : r \in {x \in loaded : x.ok}}
    IN  [ok |-> \A r \in loaded : r.ok,
         thoughts |-> [id \in {t.id : t \in found} |->
                          CHOOSE t \in found : t.id = id]])

\* Database::list_thoughts: the map whose values are returned
list_thoughts(S, W) ==
    With(head_tree(S), LAMBDA base :
    With(IF base.ok /\ ~is_zero(base.tree) THEN GraphView(S, base.tree)
         ELSE [ok |-> base.ok, thought_index |-> <<>>, edge_hashes |-> {}],
         LAMBDA view :
    With(IF view.ok THEN all_thoughts(S, view) ELSE [ok |-> FALSE, thoughts |-> <<>>],
         LAMBDA committed :
    LET merged == W.thoughts @@ committed.thoughts
    IN  [ok |-> committed.ok,
         thoughts |-> [id \in DOMAIN merged \ W.removed_thoughts |-> merged[id]]])))

\* Database::create_thought_with_id
create_thought_with_id(W, id, content) ==
    [W EXCEPT !.thoughts = (id :> Thought(id, content)) @@ @,
              !.removed_thoughts = @ \ {id},
              !.dirty = TRUE]

\* Database::update_thought
update_thought(S, W, id, content) ==
    With(db_get_thought(S, W, id), LAMBDA r :
        IF ~r.ok \/ r.thought = <<>> THEN [ok |-> FALSE, wt |-> W]
        ELSE [ok |-> TRUE,
              wt |-> [W EXCEPT !.thoughts = (id :> [r.thought[1] EXCEPT !.content = content]) @@ @,
                               !.dirty = TRUE]])

\* a delete that records the tombstone without marking the working tree
delete_thought_NotDirty(W, id) ==
    [W EXCEPT !.thoughts = Without(@, id),
              !.removed_thoughts = @ \cup {id}]

\* Database::delete_thought
delete_thought(W, id) ==
    [W EXCEPT !.thoughts = Without(@, id),
              !.removed_thoughts = @ \cup {id},
              !.dirty = TRUE]

\* Database::relate
relate(W, source, target, edge_type) ==
    LET edge == Edge(source, target, edge_type)
    IN  [W EXCEPT !.edges = (edge_key(edge) :> edge) @@ @,
                  !.removed_edges = @ \ {edge_key(edge)},
                  !.dirty = TRUE]

\* Database::unrelate
unrelate(W, source, target, edge_type) ==
    LET key == source \o COLON \o target \o COLON \o edge_type
    IN  [W EXCEPT !.edges = Without(@, key),
                  !.removed_edges = @ \cup {key},
                  !.dirty = TRUE]

\* the orders in which a HashMap or HashSet holding the members of s may be iterated
Orders(s) ==
    {o \in [1..Cardinality(s) -> s] : \A i, j \in DOMAIN o : i # j => o[i] # o[j]}

RECURSIVE InsertAll(_, _)
\* the upsert loops of commit_with_author over (key, blob) pairs; `?` stops at
\* the first error
InsertAll(st, items) ==
    IF items = <<>> \/ ~st.ok THEN st
    ELSE With(put(st.store, items[1][2]), LAMBDA p :
         With(insert(p.store, st.node, items[1][1], p.hash), LAMBDA r :
         InsertAll([ok |-> r.ok, store |-> r.store, node |-> r.node], Tail(items))))

RECURSIVE RemoveAll(_, _)
\* the tombstone loops of commit_with_author
RemoveAll(st, keys) ==
    IF keys = <<>> \/ ~st.ok THEN st
    ELSE With(remove(st.store, st.node, keys[1]), LAMBDA r :
         RemoveAll([ok |-> r.ok, store |-> r.store, node |-> r.node], Tail(keys)))

\* commit_with_author: the four loops that apply the working tree to the trie
ApplyWorkingTree(S, W, order, node) ==
    RemoveAll(
        InsertAll(
            RemoveAll(
                InsertAll([ok |-> TRUE, store |-> S, node |-> node],
                          [i \in DOMAIN order.thoughts |->
                              <<ThoughtKey(order.thoughts[i]),
                                Blob("Thought", <<"Thought", W.thoughts[order.thoughts[i]]>>)>>]),
                [i \in DOMAIN order.removed_thoughts |->
                    ThoughtKey(order.removed_thoughts[i])]),
            [i \in DOMAIN order.edges |->
                <<EdgeKey(order.edges[i]),
                  Blob("Edge", <<"Edge", W.edges[order.edges[i]]>>)>>]),
        [i \in DOMAIN order.removed_edges |-> EdgeKey(order.removed_edges[i])])

\* a commit that does not ask whether anything is pending
commit_with_author_AllowEmpty(S, W, order, msg) ==
    With(ApplyWorkingTree(S, W, order, from_root(S, head_tree(S).tree).node),
         LAMBDA applied :
    With(trie_commit(applied.store, applied.node), LAMBDA t :
    With(manager_commit(t.store, t.hash, msg), LAMBDA c :
    [ok |-> TRUE, store |-> c.store, wt |-> EmptyWT, hash |-> c.hash, err |-> NONE])))

\* Database::commit_with_author; order gives the iteration order of the four
\* collections of the working tree, msg the message, author and timestamp
commit_with_author(S, W, order, msg) ==
    LET has_changes == \/ DOMAIN W.thoughts # {}
                       \/ DOMAIN W.edges # {}
                       \/ W.removed_thoughts # {}
                       \/ W.removed_edges # {}
    IN  With(head_tree(S), LAMBDA base_tree :
        With(IF base_tree.ok THEN from_root(S, base_tree.tree) ELSE [ok |-> FALSE],
             LAMBDA trie :
        IF ~trie.ok
        THEN [ok |-> FALSE, store |-> S, wt |-> W, hash |-> NONE, err |-> "Store"]
        ELSE IF ~has_changes
        THEN [ok |-> FALSE, store |-> S, wt |-> W, hash |-> NONE,
              err |-> "NotFound(Nothing to commit)"]
        ELSE
        With(ApplyWorkingTree(S, W, order, trie.node), LAMBDA applied :
        IF ~applied.ok
        THEN [ok |-> FALSE, store |-> applied.store, wt |-> W, hash |-> NONE,
              err |-> "Store"]
        ELSE
        With(trie_commit(applied.store, applied.node), LAMBDA t :
        With(manager_commit(t.store, t.hash, msg), LAMBDA c :
        [ok |-> TRUE, store |-> c.store, wt |-> EmptyWT, hash |-> c.hash,
         err |-> NONE])))))

\* a create_branch that starts every new branch at the zero commit
db_create_branch_AtZero(S, name) == create_branch(S, name, ZERO)

\* Database::create_branch -> BranchManager::create_branch
db_create_branch(S, name) ==
    LET at == head_commit(S)
    IN  create_branch(S, name, IF at = NONE THEN ZERO ELSE at)

\* a checkout that reports success without moving HEAD
checkout_NoSwitch(S, W, branch) ==
    [ok |-> ~W.dirty /\ branch \in DOMAIN S.refs, store |-> S]

\* a checkout that does not look at the dirty flag
checkout_IgnoreDirty(S, W, branch) == set_head(S, branch)

\* Database::checkout -> BranchManager::switch_branch
checkout(S, W, branch) ==
    IF W.dirty THEN [ok |-> FALSE, store |-> S] ELSE set_head(S, branch)

(***************************************************************************)
(* Specification Spec: one owner of a Database creating, updating and      *)
(* deleting thoughts, relating and unrelating them, committing, creating   *)
(* and checking out branches, syncing, and closing and opening the file.   *)
(***************************************************************************)
MaxCommits == 3
MaxDbOps == 6

ID_A == <<97>>
ID_AB == <<97, 98>>
Ids == {ID_A, ID_AB}
Contents == {"c1", "c2"}
REL == <<114>>
DbBranches == {MAIN, FEATURE}

CommitCount(S) == Cardinality({h \in DOMAIN S.index : h[1] = as_byte("Commit")})

RetOk(op, ok, val) == [op |-> op, val |-> val, early |-> ~ok]

InitDb ==
    /\ store = create
    /\ wt = EmptyWT
    /\ pc = Idle
    /\ root = Empty
    /\ model = <<>>
    /\ ret = Ret("create", ZERO)
    /\ synced = NeverSynced
    /\ nops = 0

DbStep == pc = Idle /\ nops < MaxDbOps /\ nops' = nops + 1

CreateThoughtWithId(id, content) ==
    /\ DbStep
    /\ wt' = create_thought_with_id(wt, id, content)
    /\ ret' = Ret("create_thought", id)
    /\ UNCHANGED <<store, pc, root, model, synced>>

UpdateThought(id, content) ==
    /\ DbStep
    /\ \E r \in {update_thought(store, wt, id, content)} :
          wt' = r.wt /\ ret' = RetOk("update_thought", r.ok, id)
    /\ UNCHANGED <<store, pc, root, model, synced>>

DeleteThought(id) ==
    /\ DbStep
    /\ wt' = delete_thought(wt, id)
    /\ ret' = Ret("delete_thought", id)
    /\ UNCHANGED <<store, pc, root, model, synced>>

Relate ==
    /\ DbStep
    /\ wt' = relate(wt, ID_A, ID_AB, REL)
    /\ ret' = Ret("relate", ZERO)
    /\ UNCHANGED <<store, pc, root, model, synced>>

Unrelate ==
    /\ DbStep
    /\ wt' = unrelate(wt, ID_A, ID_AB, REL)
    /\ ret' = Ret("unrelate", ZERO)
    /\ UNCHANGED <<store, pc, root, model, synced>>

CommitOrders ==
    [thoughts : Orders(DOMAIN wt.thoughts),
     removed_thoughts : Orders(wt.removed_thoughts),
     edges : Orders(DOMAIN wt.edges),
     removed_edges : Orders(wt.removed_edges)]

CommitWithAuthor(order) ==
    /\ DbStep
    /\ CommitCount(store) < MaxCommits
    /\ \E r \in {commit_with_author(store, wt, order, "m")} :
          /\ store' = r.store
          /\ wt' = r.wt
          /\ ret' = RetOk("commit", r.ok, r.hash)
    /\ UNCHANGED <<pc, root, model, synced>>

DbCreateBranch(name) ==
    /\ DbStep
    /\ \E r \in {db_create_branch(store, name)} :
          store' = r.store /\ ret' = RetOk("create_branch", r.ok, name)
    /\ UNCHANGED <<pc, root, model, wt, synced>>

Checkout(name) ==
    /\ DbStep
    /\ \E r \in {checkout(store, wt, name)} :
          store' = r.store /\ ret' = RetOk("checkout", r.ok, name)
    /\ UNCHANGED <<pc, root, model, wt, synced>>

DbSync ==
    /\ DbStep
    /\ store' = sync(store)
    /\ synced' = Durable(store)
    /\ ret' = Ret("sync", ZERO)
    /\ UNCHANGED <<pc, root, model, wt>>

\* Drop for Database (the store's best-effort sync; the working tree is lost),
\* then Database::open of the file
DbOpen ==
    /\ DbStep
    /\ \E o \in {open(sync(store).file)} :
          /\ store' = o.store
          /\ pc' = IF o.ok THEN Idle ELSE At("corrupt")
    /\ wt' = EmptyWT
    /\ synced' = Durable(store)
    /\ ret' = Ret("open", ZERO)
    /\ UNCHANGED <<root, model>>

Next ==
    \/ \E id \in Ids, content \in Contents : CreateThoughtWithId(id, content)
    \/ \E id \in Ids, content \in Contents : UpdateThought(id, content)
    \/ \E id \in Ids : DeleteThought(id)
    \/ Relate
    \/ Unrelate
    \/ \E order \in CommitOrders : CommitWithAuthor(order)
    \/ \E name \in DbBranches : DbCreateBranch(name)
    \/ \E name \in DbBranches : Checkout(name)
    \/ DbSync
    \/ DbOpen

Spec == InitDb /\ [][Next]_vars

(***************************************************************************)
(* Reference reading of a committed tree, used to state the properties     *)
(***************************************************************************)
AllKeys == {ThoughtKey(id) : id \in Ids} \cup {EdgeKey(edge_key(Edge(ID_A, ID_AB, REL)))}

\* the value hash a key resolves to in the tree with the given root, NONE when
\* the key is absent, GARBAGE when the tree cannot be read
TreeGet(S, tree, key) ==
    IF is_zero(tree) THEN NONE
    ELSE LET t == load_node(S, tree)
             r == IF t.ok THEN trie_get(S, t.node, key) ELSE [ok |-> FALSE]
         IN  IF r.ok THEN r.value ELSE GARBAGE

\* every (key, value hash) pair of the tree with the given root
TreeEntries(S, tree) ==
    IF is_zero(tree) THEN {}
    ELSE LET t == load_node(S, tree)
             r == IF t.ok THEN list_prefix(S, t.node, <<>>) ELSE [ok |-> FALSE]
         IN  IF r.ok THEN {r.results[i] : i \in 1..Len(r.results)} ELSE {GARBAGE}

\* the commits in the object index
Commits(S) == {h \in DOMAIN S.index : h[1] = as_byte("Commit")}

\* the tree of the commit a ref points at (the zero root for the zero ref)
RefTree(S, name) ==
    IF is_zero(S.refs[name]) THEN ZERO ELSE get_commit(S, S.refs[name]).commit.tree

\* the blob hash put_thought and put_edge give an entity
ThoughtHash(thought) == BlobHash(Blob("Thought", <<"Thought", thought>>))
EdgeHash(edge) == BlobHash(Blob("Edge", <<"Edge", edge>>))

\* what commit_with_author is to make of a key, given the tree before
Expected(S, W, base, key) ==
    IF \E id \in DOMAIN W.thoughts : key = ThoughtKey(id)
    THEN ThoughtHash(W.thoughts[Drop(key, 2)])
    ELSE IF \E k \in DOMAIN W.edges : key = EdgeKey(k)
    THEN EdgeHash(W.edges[Drop(key, 2)])
    ELSE IF \/ \E id \in W.removed_thoughts : key = ThoughtKey(id)
            \/ \E k \in W.removed_edges : key = EdgeKey(k)
    THEN NONE
    ELSE TreeGet(S, base, key)

Committing == \E order \in CommitOrders : CommitWithAuthor(order)

\* C2: after a successful Database commit the new commit's tree maps the key
\* of every pending upsert to the hash of its stored blob, has no key of a
\* tombstone, and maps every other key to what the previous HEAD tree (empty
\* when there was no HEAD commit) mapped it to; it has no further keys
C2_CommitTree ==
    [][(ret'.op = "commit" /\ ~ret'.early /\ Committing) =>
        LET base == RefTree(store, store.head)
            new == get_commit(store', ret'.val)
        IN  /\ new.ok
            /\ \A key \in AllKeys :
                  /\ TreeGet(store', new.commit.tree, key) = Expected(store, wt, base, key)
                  /\ Expected(store, wt, base, key) # NONE
                        => get(store', Expected(store, wt, base, key)).ok
            /\ \A e \in TreeEntries(store', new.commit.tree) : e # GARBAGE /\ e[1] \in AllKeys
      ]_vars

\* a second commit that kept one key, dropped another and added a third
C2_Witness ==
    /\ ret.op = "commit" /\ ~ret.early
    /\ LET new == get_commit(store, ret.val).commit
       IN  /\ new.parents # <<>>
           /\ LET old == get_commit(store, new.parents[1]).commit
              IN  \E k1, k2, k3 \in AllKeys :
                     /\ TreeGet(store, old.tree, k1) # NONE
                     /\ TreeGet(store, new.tree, k1) = NONE
                     /\ TreeGet(store, old.tree, k2) # NONE
                     /\ TreeGet(store, new.tree, k2) = TreeGet(store, old.tree, k2)
                     /\ TreeGet(store, old.tree, k3) = NONE
                     /\ TreeGet(store, new.tree, k3) # NONE

\* C3: a successful commit stores a commit whose parents are exactly the commit
\* the current branch's ref pointed at (none when that ref was zero), points
\* the current branch's ref at the new commit, and changes neither HEAD nor
\* the ref of any other branch
C3_CommitFrame ==
    [][(ret'.op = "commit" /\ ~ret'.early /\ Committing) =>
        LET before == store.refs[store.head]
            new == get_commit(store', ret'.val)
        IN  /\ new.ok
            /\ new.commit.parents = IF before = ZERO THEN <<>> ELSE <<before>>
            /\ store'.head = store.head
            /\ DOMAIN store'.refs = DOMAIN store.refs
            /\ store'.refs[store.head] = ret'.val
            /\ \A name \in DOMAIN store.refs \ {store.head} :
                  store'.refs[name] = store.refs[name]
      ]_vars

\* a commit on feature with a parent, while main points at another commit
C3_Witness ==
    /\ ret.op = "commit" /\ ~ret.early
    /\ store.head = FEATURE
    /\ store.refs[FEATURE] = ret.val
    /\ store.refs[MAIN] \notin {ZERO, ret.val}
    /\ get_commit(store, ret.val).commit.parents # <<>>

\* what a commit hash resolves to: the commit, and for every key of its tree
\* the blob the key's value hash names
History(S, c) ==
    LET r == get_commit(S, c)
        entries == IF r.ok THEN TreeEntries(S, r.commit.tree) ELSE {GARBAGE}
    IN  [commit |-> r,
         blobs |-> {IF e = GARBAGE THEN GARBAGE ELSE <<e[1], get(S, e[2])>> : e \in entries}]

Readable(S, c) ==
    /\ History(S, c).commit.ok
    /\ \A b \in History(S, c).blobs : b # GARBAGE /\ b[2].ok

\* C4: every commit ever written stays in the store, and no later step
\* (mutation, deletion, commit, branch operation, sync, close and open)
\* changes its tree, its parents, or the entity blob any key of its tree
\* resolves to
C4_HistoryImmutable ==
    /\ [](\A c \in Commits(store) : Readable(store, c))
    /\ [][store' # store =>
            \A c \in Commits(store) :
               /\ c \in Commits(store')
               /\ History(store', c) = History(store, c)]_vars

\* the file was closed and opened after a thought committed earlier was deleted
\* by a later commit, and the earlier commit still holds it
C4_Witness ==
    /\ ret.op = "open"
    /\ \E c \in Commits(store) :
          /\ c # store.refs[store.head]
          /\ TreeGet(store, get_commit(store, c).commit.tree, ThoughtKey(ID_A)) # NONE
          /\ TreeGet(store, RefTree(store, store.head), ThoughtKey(ID_A)) = NONE
          /\ RefTree(store, store.head) # ZERO

\* the thought committed at HEAD under an id, as an Option
CommittedThought(S, id) ==
    LET h == TreeGet(S, RefTree(S, S.head), ThoughtKey(id))
    IN  IF h = NONE THEN <<>> ELSE <<get(S, h).blob.data[2]>>

\* the committed HEAD state overlaid by the working tree
Overlay(S, W, id) ==
    IF id \in W.removed_thoughts THEN <<>>
    ELSE IF id \in DOMAIN W.thoughts THEN <<W.thoughts[id]>>
    ELSE CommittedThought(S, id)

\* C5: in every reachable state get_thought(id) and list_thoughts return the
\* committed HEAD state overlaid by the working tree: nothing for a tombstoned
\* id, the pending upsert for an upserted id, and otherwise the thought as
\* committed at HEAD
C5_Overlay ==
    [](pc = Idle =>
        /\ \A id \in Ids : db_get_thought(store, wt, id) =
                              [ok |-> TRUE, thought |-> Overlay(store, wt, id)]
        /\ list_thoughts(store, wt).ok
        /\ LET listed == list_thoughts(store, wt).thoughts
           IN  {listed[id] : id \in DOMAIN listed} =
                  {Overlay(store, wt, id)[1] : id \in {i \in Ids : Overlay(store, wt, i) # <<>>}})

\* one committed thought is tombstoned, another has a pending update that
\* differs from its committed version
C5_Witness ==
    /\ CommittedThought(store, ID_A) # <<>>
    /\ ID_A \in wt.removed_thoughts
    /\ CommittedThought(store, ID_AB) # <<>>
    /\ ID_AB \in DOMAIN wt.thoughts
    /\ CommittedThought(store, ID_AB) # <<wt.thoughts[ID_AB]>>

\* C6: after a successful checkout(b), which needs a clean working tree,
\* get_thought(id) returns a thought exactly when key t:<id> is in the tree
\* of b's head commit: a thought committed only on feature is absent after
\* checkout(main) and present after checkout(feature)
C6_CheckoutShowsBranch ==
    [][\A b \in DbBranches : (ret' = RetOk("checkout", TRUE, b) /\ Checkout(b)) =>
          /\ ~wt.dirty /\ wt' = EmptyWT
          /\ \A id \in Ids :
                /\ db_get_thought(store', wt', id).ok
                /\ db_get_thought(store', wt', id).thought # <<>>
                      <=> TreeGet(store', RefTree(store', b), ThoughtKey(id)) # NONE
      ]_vars

\* main was checked out while a thought is committed on feature only
C6_Witness ==
    /\ ret = RetOk("checkout", TRUE, MAIN)
    /\ FEATURE \in DOMAIN store.refs
    /\ TreeGet(store, RefTree(store, FEATURE), ThoughtKey(ID_A)) # NONE
    /\ TreeGet(store, RefTree(store, MAIN), ThoughtKey(ID_A)) = NONE
    /\ db_get_thought(store, wt, ID_A).thought = <<>>

(***************************************************************************)
(* The root hash of a trie                                                 *)
(***************************************************************************)
\* TrieNode::hash: the digest of the serialized node
node_hash(node) == digest(SerializeNode(node))

\* a root hash without the sentinel for the empty trie
root_hash_NoSentinel(node) == node_hash(node)

\* MerkleTrie::root_hash
root_hash(node) == IF is_empty(node) THEN ZERO ELSE node_hash(node)

\* the trie only grows
NextTrieInsert == \E k \in TrieKeys, v \in TrieValues : TrieInsert(k, v)

SpecTrieInsert == InitTrie /\ [][NextTrieInsert]_vars

RECURSIVE BuildFrom(_, _, _)
\* insert the keys of order, each with its value, one after the other
BuildFrom(st, order, values) ==
    IF order = <<>> \/ ~st.ok THEN st
    ELSE With(insert(st.store, st.node, order[1], values[order[1]]), LAMBDA r :
         BuildFrom([ok |-> r.ok, store |-> r.store, node |-> r.node],
                   Tail(order), values))

\* a trie built in a new store (MerkleTrie::new) by inserts in the given order
Build(order, values) ==
    BuildFrom([ok |-> TRUE, store |-> create, node |-> Empty], order, values)

\* the keys the trie holds
Held == {k \in TrieKeys : model[k] # NONE}

\* C11: a trie built by inserts only, repeated or overwriting inserts
\* included, has the root hash of the trie built by inserting its final
\* (key, value) pairs once each in ascending key order; every order of
\* inserts is a behaviour, so any two of them with the same final pairs agree
C11_InsertOrder ==
    [](/\ Build(SortNames(Held), model).ok
       /\ root_hash(Build(SortNames(Held), model).node) = root_hash(root))

\* three keys are held after four inserts, one of them on a branch node
C11_Witness ==
    /\ Cardinality(Held) = 3
    /\ nops = MaxTrieOps
    /\ root.kind = "Branch"
    /\ root.value # NONE

\* the root is the one a trie built from the held pairs alone would have
Canonical(node, values) ==
    LET keys == {k \in TrieKeys : values[k] # NONE}
        fresh == Build(SortNames(keys), values)
    IN  fresh.ok /\ root_hash(node) = root_hash(fresh.node)

TriePrefixes == TrieKeys \cup {<<1, 1, 1>>}

\* C13: list_prefix(p) returns the pairs of the trie whose key starts with p,
\* each exactly once, and nothing else, after any inserts and removes
C13_ListPrefix ==
    [](\A p \in TriePrefixes :
       \A r \in {list_prefix(store, root, p)} :
       \A matching \in {{k \in Held : starts_with(k, p)}} :
          /\ r.ok
          /\ Len(r.results) = Cardinality(matching)
          /\ {r.results[i] : i \in DOMAIN r.results}
                = {<<k, model[k]>> : k \in matching})

\* after a remove that returned a value, a key stored on a branch node is a
\* prefix of another key: listing the longer key gives one pair, listing
\* the shorter one gives both
C13_Witness ==
    /\ ret # NONE
    /\ \E k, j \in Held :
          /\ k # <<>> /\ j # k /\ starts_with(j, k)
          /\ Len(list_prefix(store, root, j).results) = 1
          /\ Len(list_prefix(store, root, k).results) = 2

\* C14: a trie that holds no keys, whether it was never written, was loaded
\* from the zero root or had all its keys removed again, has the zero hash as
\* root_hash() and as the result of commit()
C14_EmptyIsZero ==
    [](/\ Held = {} =>
             /\ root_hash(root) = ZERO
             /\ trie_commit(store, root).hash = ZERO
       /\ from_root(store, ZERO).ok
       /\ root_hash(from_root(store, ZERO).node) = ZERO
       /\ trie_commit(store, from_root(store, ZERO).node).hash = ZERO)

\* the last key was just removed from a trie that had grown a branch
C14_Witness ==
    /\ Held = {}
    /\ ret # NONE
    /\ object_count(store) > 0

\* the working tree holds no pending upsert and no tombstone
NothingPending(W) ==
    /\ DOMAIN W.thoughts = {}
    /\ DOMAIN W.edges = {}
    /\ W.removed_thoughts = {}
    /\ W.removed_edges = {}

\* C15: a commit while nothing is pending fails with NotFound("Nothing to
\* commit") and leaves the refs, HEAD, the object index and the working tree
\* as they were
C15_NothingToCommit ==
    [][(ret'.op = "commit" /\ NothingPending(wt)) =>
          /\ ret' = RetOk("commit", FALSE, NONE)
          /\ \A order \in CommitOrders :
                commit_with_author(store, wt, order, "m").err
                   = "NotFound(Nothing to commit)"
          /\ store'.refs = store.refs
          /\ store'.head = store.head
          /\ store'.index = store.index
          /\ wt' = wt
      ]_vars

\* a commit was refused on a database that has a commit already
C15_Witness ==
    /\ ret = RetOk("commit", FALSE, NONE)
    /\ NothingPending(wt)
    /\ CommitCount(store) > 0

\* Database::current_branch
current_branch(S) == S.head

\* C17: checkout(b) with a dirty working tree fails and leaves HEAD, the refs
\* and the working tree as they were; with a clean working tree, as right
\* after a successful commit, checkout of an existing branch succeeds and
\* current_branch() is then that branch
C17_CheckoutDirty ==
    [][\A b \in DbBranches : (ret'.op = "checkout" /\ ret'.val = b) =>
          IF wt.dirty
          THEN /\ ret'.early
               /\ store'.head = store.head
               /\ store'.refs = store.refs
               /\ wt' = wt
          ELSE b \in DOMAIN store.refs =>
               /\ ~ret'.early
               /\ current_branch(store') = b
               /\ store'.refs = store.refs
      ]_vars

\* feature was checked out after a commit, and a later checkout of main was
\* refused because the working tree was dirty
C17_Witness ==
    /\ ret = RetOk("checkout", FALSE, MAIN)
    /\ wt.dirty
    /\ current_branch(store) = FEATURE
    /\ CommitCount(store) > 0

\* Database::is_dirty
is_dirty(W) == W.dirty

\* C18: the dirty flag is set exactly when one of the four pending
\* collections is non-empty, that is, exactly when a commit would not fail
\* with "Nothing to commit"
C18_DirtyIffPending ==
    [](/\ is_dirty(wt) <=> ~NothingPending(wt)
       /\ \A order \in CommitOrders :
             is_dirty(wt) <=>
                commit_with_author(store, wt, order, "m").err
                   # "NotFound(Nothing to commit)")

\* the only pending change is the tombstone of a thought that was created
\* and deleted again before any commit of it
C18_Witness ==
    /\ is_dirty(wt)
    /\ DOMAIN wt.thoughts = {}
    /\ DOMAIN wt.edges = {}
    /\ wt.removed_edges = {}
    /\ wt.removed_thoughts = {ID_A}
    /\ CommittedThought(store, ID_A) = <<>>
    /\ CommitCount(store) > 0

(***************************************************************************)
(* BranchManager::log (ops/branch.rs)                                      *)
(***************************************************************************)
RECURSIVE log_from(_, _, _, _)
\* the loop of BranchManager::log; limit is <<>> for Option::None, for which
\* the code compares the length with usize::MAX, and <<m>> for Some(m)
log_from(S, current, limit, result) ==
    IF current = NONE \/ (limit # <<>> /\ Len(result) >= limit[1])
    THEN [ok |-> TRUE, entries |-> result]
    ELSE With(get_commit(S, current), LAMBDA c :
         IF ~c.ok THEN [ok |-> FALSE, entries |-> <<>>]
         ELSE log_from(S,
                       IF c.commit.parents = <<>> THEN NONE ELSE c.commit.parents[1],
                       limit,
                       Append(result, <<current, c.commit>>)))

\* a log that stops one entry late
log_OffByOne(S, limit) ==
    log_from(S, head_commit(S), IF limit = <<>> THEN <<>> ELSE <<limit[1] + 1>>, <<>>)

\* Database::log -> BranchManager::log
log(S, limit) == log_from(S, head_commit(S), limit, <<>>)

\* the store with main checked out (BranchManager::switch_branch)
OnMain(S) == set_head(S, MAIN).store

\* what log(None) returns on main
MainLog(S) == log(OnMain(S), <<>>).entries

\* each entry's first parent is the hash of the next entry, and the last
\* entry has no parents
Chained(entries) ==
    \A i \in DOMAIN entries :
        IF i < Len(entries)
        THEN entries[i][2].parents # <<>> /\ entries[i][2].parents[1] = entries[i + 1][1]
        ELSE entries[i][2].parents = <<>>

\* C16: on the main branch of a new database log(None) starts empty, every
\* successful commit on main puts its (hash, commit) in front of it and no
\* other step changes it, so after N commits it is those N commits, newest
\* first; its entries are chained by their first parents down to a commit
\* without parents; and log(Some(m)) is its first min(m, N) entries
C16_Log ==
    /\ MainLog(store) = <<>>
    /\ [](LET full == log(OnMain(store), <<>>)
          IN  /\ full.ok
              /\ Chained(full.entries)
              /\ \A m \in 0..(MaxCommits + 1) :
                    log(OnMain(store), <<m>>)
                       = [ok |-> TRUE,
                          entries |-> Take(full.entries, Min(m, Len(full.entries)))])
    /\ [][(store' # store \/ (ret'.op = "commit" /\ ~ret'.early)) =>
          IF ret'.op = "commit" /\ ~ret'.early /\ store.head = MAIN
          THEN /\ get_commit(store', ret'.val).ok
               /\ MainLog(store')
                     = <<<<ret'.val, get_commit(store', ret'.val).commit>>>>
                          \o MainLog(store)
          ELSE MainLog(store') = MainLog(store)
         ]_vars

\* main is checked out and holds two commits or more, so that log(Some(1))
\* is cut short, while feature holds a commit that main does not
C16_Witness ==
    /\ store.head = MAIN
    /\ Len(log(store, <<>>).entries) >= 2
    /\ Len(log(store, <<1>>).entries) = 1
    /\ FEATURE \in DOMAIN store.refs
    /\ \A i \in DOMAIN MainLog(store) : MainLog(store)[i][1] # store.refs[FEATURE]

(***************************************************************************)
(* neighbors (graph/traversal.rs, database.rs)                             *)
(***************************************************************************)
\* GraphView::new, the loop over list_prefix("e:"): the hashes pushed to
\* edges_from[id] (side "source") or edges_to[id] (side "target"), in order
EdgesOf(S, tree, side, id) ==
    LET es == list_prefix(S, from_root(S, tree).node, E_PREFIX).results
        hashes == [i \in DOMAIN es |-> es[i][2]]
    IN  SelectSeq(hashes, LAMBDA h : get_edge(S, h).edge[1][side] = id)

\* GraphView::neighbors with no edge type filter: (thought, edge) pairs
view_neighbors(S, tree, id, direction) ==
    LET view == GraphView(S, tree)
        edge_hashes ==
            CASE direction = "Outgoing" -> EdgesOf(S, tree, "source", id)
              [] direction = "Incoming" -> EdgesOf(S, tree, "target", id)
              [] direction = "Both" -> EdgesOf(S, tree, "source", id)
                                          \o EdgesOf(S, tree, "target", id)
        neighbor_id(edge) ==
            CASE direction = "Outgoing" -> edge.target
              [] direction = "Incoming" -> edge.source
              [] direction = "Both" -> IF edge.source = id THEN edge.target
                                       ELSE edge.source
        found == [i \in DOMAIN edge_hashes |->
                    LET edge == get_edge(S, edge_hashes[i]).edge[1]
                    IN  [thought |-> view_get_thought(S, view, neighbor_id(edge)),
                         edge |-> edge]]
        some == SelectSeq(found, LAMBDA f : f.thought.thought # <<>>)
    IN  IF ~view.ok THEN [ok |-> FALSE, results |-> <<>>]
        ELSE [ok |-> \A i \in DOMAIN found : found[i].thought.ok,
              results |-> [i \in DOMAIN some |->
                              <<some[i].thought.thought[1], some[i].edge>>]]

\* Database::neighbors; W is the working tree of self
db_neighbors(S, W, id, direction) ==
    LET tree_hash == head_tree(S)
    IN  IF ~tree_hash.ok THEN [ok |-> FALSE, results |-> <<>>]
        ELSE IF is_zero(tree_hash.tree) THEN [ok |-> TRUE, results |-> <<>>]
        ELSE view_neighbors(S, tree_hash.tree, id, direction)

\* the edges of the head commit
CommittedEdges(S) ==
    IF is_zero(head_tree(S).tree) THEN {}
    ELSE {get_edge(S, h).edge[1] : h \in GraphView(S, head_tree(S).tree).edge_hashes}

\* the edges of the working tree laid over those of the head commit
OverlayEdges(S, W) ==
    {e \in CommittedEdges(S) \cup {W.edges[k] : k \in DOMAIN W.edges} :
        edge_key(e) \notin W.removed_edges}

\* C19: neighbors(id, direction) reports the edges of the working tree laid
\* over the committed ones whose neighbour get_thought returns: a pending
\* relate is reported before any commit, an edge removed by unrelate or one
\* whose neighbour was deleted is not
C19_NeighborsOverlay ==
    [](\A id \in Ids :
          /\ db_neighbors(store, wt, id, "Outgoing").ok
          /\ {p[2] : p \in {db_neighbors(store, wt, id, "Outgoing").results[i] :
                               i \in DOMAIN db_neighbors(store, wt, id, "Outgoing").results}}
                = {e \in OverlayEdges(store, wt) :
                      /\ e.source = id
                      /\ db_get_thought(store, wt, e.target).thought # <<>>}
          /\ db_neighbors(store, wt, id, "Incoming").ok
          /\ {p[2] : p \in {db_neighbors(store, wt, id, "Incoming").results[i] :
                               i \in DOMAIN db_neighbors(store, wt, id, "Incoming").results}}
                = {e \in OverlayEdges(store, wt) :
                      /\ e.target = id
                      /\ db_get_thought(store, wt, e.source).thought # <<>>})

(***************************************************************************)
(* diff_trees (ops/diff.rs)                                                *)
(***************************************************************************)
\* entries.insert(key, hash) for each listed pair: a later pair replaces an
\* earlier one with the same key
EntryMap(results) ==
    [key \in {results[i][1] : i \in DOMAIN results} |->
        results[CHOOSE i \in DOMAIN results :
                    /\ results[i][1] = key
                    /\ \A j \in DOMAIN results : results[j][1] = key => j <= i][2]]

\* a collection of the thought entries only
collect_thought_entries(S, node) ==
    LET ts == list_prefix(S, node, T_PREFIX)
    IN  [ok |-> ts.ok, entries |-> EntryMap(ts.results)]

\* collect_all_entries: the t: entries, then the e: entries
collect_all_entries(S, node) ==
    LET ts == list_prefix(S, node, T_PREFIX)
        es == list_prefix(S, node, E_PREFIX)
    IN  IF ~ts.ok \/ ~es.ok THEN [ok |-> FALSE, entries |-> <<>>]
        ELSE [ok |-> TRUE, entries |-> EntryMap(ts.results \o es.results)]

\* the entries of one side of diff_trees
RootEntries(S, tree) ==
    IF is_zero(tree) THEN [ok |-> TRUE, entries |-> <<>>]
    ELSE LET trie == from_root(S, tree)
         IN  IF ~trie.ok THEN [ok |-> FALSE, entries |-> <<>>]
             ELSE collect_all_entries(S, trie.node)

\* the match of diff_trees on (old_entries.get(key), new_entries.get(key))
DiffEntry(old_entries, new_entries, key) ==
    IF key \notin DOMAIN old_entries
    THEN [kind |-> "Added", key |-> key, new_hash |-> new_entries[key]]
    ELSE IF key \notin DOMAIN new_entries
    THEN [kind |-> "Removed", key |-> key, old_hash |-> old_entries[key]]
    ELSE [kind |-> "Modified", key |-> key, old_hash |-> old_entries[key],
          new_hash |-> new_entries[key]]

\* diff_trees: the changed keys in the order of sort_by(|a, b| a.key().cmp(b.key()))
diff_trees(S, old_root, new_root) ==
    IF old_root = new_root THEN [ok |-> TRUE, entries |-> <<>>]
    ELSE LET old == RootEntries(S, old_root)
             new == RootEntries(S, new_root)
             changed == {key \in DOMAIN old.entries \cup DOMAIN new.entries :
                            \/ key \notin DOMAIN old.entries
                            \/ key \notin DOMAIN new.entries
                            \/ old.entries[key] # new.entries[key]}
             sorted == SortNames(changed)
         IN  IF ~old.ok \/ ~new.ok THEN [ok |-> FALSE, entries |-> <<>>]
             ELSE [ok |-> TRUE,
                   entries |-> [i \in DOMAIN sorted |->
                                   DiffEntry(old.entries, new.entries, sorted[i])]]

\* the roots of the committed trees, and the zero root
Trees(S) == {ZERO} \cup {get_commit(S, c).commit.tree : c \in Commits(S)}

\* the entry a diff is to hold for a key whose value, NONE when the key is
\* absent, is old_hash in the old and new_hash in the new tree
ExpectedEntry(key, old_hash, new_hash) ==
    IF old_hash = NONE
    THEN [kind |-> "Added", key |-> key, new_hash |-> new_hash]
    ELSE IF new_hash = NONE
    THEN [kind |-> "Removed", key |-> key, old_hash |-> old_hash]
    ELSE [kind |-> "Modified", key |-> key, old_hash |-> old_hash,
          new_hash |-> new_hash]

\* diff_trees over every pair of trees of S gives, for each key whose value
\* differs, one entry of the right kind and hashes, for no other key an
\* entry, in ascending order of the key bytes
DiffsRight(S) ==
    \A value \in {[tree \in Trees(S) |-> [key \in AllKeys |-> TreeGet(S, tree, key)]]} :
    \A old, new \in Trees(S) :
    \A d \in {diff_trees(S, old, new)} :
        /\ d.ok
        /\ \A key \in AllKeys :
              LET at == {i \in DOMAIN d.entries : d.entries[i].key = key}
              IN  IF value[old][key] = value[new][key]
                  THEN at = {}
                  ELSE /\ Cardinality(at) = 1
                       /\ \A i \in at :
                             d.entries[i]
                                = ExpectedEntry(key, value[old][key], value[new][key])
        /\ \A i \in DOMAIN d.entries : d.entries[i].key \in AllKeys
        /\ \A i, j \in DOMAIN d.entries :
              i < j => LexLess(d.entries[i].key, d.entries[j].key)
        /\ old = new => d.entries = <<>>
        /\ is_zero(old) => \A i \in DOMAIN d.entries : d.entries[i].kind = "Added"
        /\ is_zero(new) => \A i \in DOMAIN d.entries : d.entries[i].kind = "Removed"

\* C20: for any two committed trees (or the empty tree) diff_trees holds
\* exactly one entry for each key whose value differs, of the kind and with
\* the hashes the two trees give, and no entry for any other key; the
\* entries ascend by key bytes; diff(r, r) is empty, diff(0, r) holds only
\* Added and diff(r, 0) only Removed entries. This holds of a new database
\* and again after every step that changes the objects or the file.
C20_DiffTrees ==
    /\ DiffsRight(store)
    /\ [][(store'.index # store.index \/ store'.file # store.file) =>
             DiffsRight(store')]_vars

\* two committed trees differ by a modified thought and by an added key
C20_Witness ==
    \E old, new \in Trees(store) :
        /\ Len(diff_trees(store, old, new).entries) = 2
        /\ diff_trees(store, old, new).entries[1].kind = "Modified"
        /\ diff_trees(store, old, new).entries[2].kind = "Added"
        /\ Len(diff_trees(store, new, ZERO).entries) = 2

\* Hash::to_hex: the 64 hexadecimal characters of a hash, as a string
to_hex(h) == <<"hex", h>>

\* Hash::from_hex: Some(hash) for a string of 64 hexadecimal characters,
\* Err for every other string
from_hex(s) == IF Len(s) = 2 /\ s[1] = "hex" THEN <<s[2]>> ELSE <<>>

HEAD_DETACHED == <<72, 69, 65, 68, 95, 68, 69, 84, 65, 67, 72, 69, 68>>

\* ops::branch::checkout
ops_checkout(S, target) ==
    IF get_ref(S, target) # NONE
    THEN With(set_head(S, target), LAMBDA h :
            IF ~h.ok THEN [ok |-> FALSE, err |-> "RefNotFound", store |-> S]
            ELSE IF is_zero(get_ref(S, target))
            THEN [ok |-> TRUE, err |-> NONE, store |-> h.store]
            ELSE With(get_commit(h.store, get_ref(S, target)), LAMBDA c :
                    IF c.ok THEN [ok |-> TRUE, err |-> NONE, store |-> h.store]
                    ELSE [ok |-> FALSE, err |-> c.err, store |-> h.store]))
    ELSE IF from_hex(target) # <<>> /\ contains(S, from_hex(target)[1])
    THEN With(get_commit(S, from_hex(target)[1]), LAMBDA c :
            IF ~c.ok THEN [ok |-> FALSE, err |-> c.err, store |-> S]
            ELSE [ok |-> TRUE, err |-> NONE,
                  store |-> set_ref(S, HEAD_DETACHED, from_hex(target)[1])])
    ELSE [ok |-> FALSE, err |-> "RefNotFound", store |-> S]

\* a string that is neither a ref name nor 64 hexadecimal characters
NOT_HEX == <<122>>

CheckoutTargets(S) ==
    CrashNames \cup {HEAD_DETACHED, NOT_HEX, to_hex(ZERO)}
        \cup {to_hex(h) : h \in DOMAIN S.index}

OpsCheckout(target) ==
    /\ Step
    /\ \E r \in {ops_checkout(store, target)} :
          /\ store' = r.store
          /\ ret' = [op |-> "checkout", early |-> ~r.ok,
                     val |-> [target |-> target, err |-> r.err]]
    /\ UNCHANGED <<pc, root, model, wt, synced>>

(***************************************************************************)
(* Specification SpecRefs: one owner of an ObjectStore creating and        *)
(* deleting branches, moving HEAD, checking out a branch or a commit,      *)
(* storing objects, committing, syncing, and dropping the store and        *)
(* opening the file again; no call is interrupted.                         *)
(***************************************************************************)
NextRefs ==
    \/ \E name \in CrashNames : CreateBranch(name, ZERO)
    \/ \E name \in CrashNames : DeleteBranch(name)
    \/ \E name \in CrashNames : SetHead(name)
    \/ \E target \in CheckoutTargets(store) : OpsCheckout(target)
    \/ \E b \in StoreBlobs : Put(b)
    \/ \E t \in StoreTrees : StoreCommit(t, "m")
    \/ Sync
    \/ Reopen

SpecRefs == InitStore /\ [][NextRefs]_vars

\* C23: the HEAD name is always a key of the refs table; set_head of a name
\* that is not a ref fails, delete_branch of the current HEAD fails, and
\* each leaves HEAD and the refs as they were
C23_HeadIsRef ==
    [](pc = Idle =>
          /\ store.head \in DOMAIN store.refs
          /\ \A name \in CrashNames :
                /\ name \notin DOMAIN store.refs =>
                      set_head(store, name) = [ok |-> FALSE, store |-> store]
                /\ name = store.head =>
                      delete_branch(store, name) = [ok |-> FALSE, store |-> store])

\* C24: create_branch(name) with a name that is not a ref adds the ref name ->
\* the commit of the current HEAD (the zero hash when HEAD has no commit) and
\* changes neither HEAD nor any other ref; with a name that is a ref it fails
\* and leaves HEAD and the refs as they were
C24_CreateBranch ==
    [][\A name \in DbBranches : (ret'.op = "create_branch" /\ ret'.val = name) =>
          IF name \notin DOMAIN store.refs
          THEN /\ ~ret'.early
               /\ DOMAIN store'.refs = DOMAIN store.refs \cup {name}
               /\ store'.refs[name] =
                     (IF head_commit(store) = NONE THEN ZERO ELSE head_commit(store))
               /\ \A other \in DOMAIN store.refs : store'.refs[other] = store.refs[other]
               /\ store'.head = store.head
          ELSE /\ ret'.early
               /\ store'.refs = store.refs
               /\ store'.head = store.head
      ]_vars

\* feature was created at a commit of main, not at the zero hash
C24_Witness ==
    /\ ret = RetOk("create_branch", TRUE, FEATURE)
    /\ store.head = MAIN
    /\ store.refs[FEATURE] = store.refs[MAIN]
    /\ ~is_zero(store.refs[FEATURE])

StoredCommit(S, hash) == contains(S, hash) /\ hash[1] = as_byte("Commit")

\* C25: checkout(store, target) of an existing ref sets HEAD to it; otherwise,
\* of the hex hash of a stored commit, it points the detached-HEAD ref at that
\* commit; in every other case, a hash of a stored object that is not a
\* commit included, it fails with RefNotFound and leaves HEAD and the refs as
\* they were
C25_Checkout ==
    [][ret'.op = "checkout" =>
          \A target \in {ret'.val.target} :
             IF target \in DOMAIN store.refs
             THEN /\ ~ret'.early
                  /\ store'.head = target
                  /\ store'.refs = store.refs
             ELSE IF from_hex(target) # <<>> /\ StoredCommit(store, from_hex(target)[1])
             THEN /\ ~ret'.early
                  /\ store'.refs = set_ref(store, HEAD_DETACHED, from_hex(target)[1]).refs
                  /\ store'.head = store.head
             ELSE /\ ret'.early
                  /\ ret'.val.err = "RefNotFound"
                  /\ store'.head = store.head
                  /\ store'.refs = store.refs
      ]_vars

\* the last call was a checkout of a commit hash and it succeeded
Detached == ret.op = "checkout" /\ ~ret.early /\ from_hex(ret.val.target) # <<>>

\* C26: the commit that follows a checkout of a commit hash has that commit as
\* its parent and advances the detached-HEAD ref, and the ref of the branch
\* that was current before the checkout is left as it was
C26_DetachedCommit ==
    [][(Detached /\ ret'.op = "commit") =>
          /\ get_commit(store', ret'.val).commit.parents = from_hex(ret.val.target)
          /\ store'.refs[HEAD_DETACHED] = ret'.val
          /\ store'.refs[store.head] = store.refs[store.head]
      ]_vars

\* the header fields sync updates, as they are in the file
HeaderFields(file) ==
    <<file.object_count, file.index_offset, file.refs_offset, file.refs_count,
      file.head_len, file.head_area>>

\* every write of the index and of the refs comes before every header write
TablesFirst(ws) ==
    \A i, j \in 1..Len(ws) : (ws[i].to # "data" /\ ws[j].to = "data") => j < i

\* C28: sync writes the index, then the refs, and only then the header fields
\* and the HEAD area; whenever a write of a running sync has changed the
\* header, the index and the refs the header names are written in the file
C28_SyncOrder ==
    /\ [](pc = Idle => TablesFirst(SyncWrites(store)))
    /\ [][(pc'.at = "sync" /\ HeaderFields(store'.file) # HeaderFields(store.file)) =>
             open(store'.file).ok]_vars

(***************************************************************************)
(* Specification SpecLocks: two threads sharing one ObjectStore and        *)
(* calling put, get and sync.  Each call is the sequence of its lock       *)
(* acquisitions and of the blocks that end with guards being dropped; a    *)
(* thread waits while a lock it needs is held in a conflicting mode.       *)
(***************************************************************************)
Threads == {1, 2}

Acq(lock, mode) == [do |-> "acquire", lock |-> lock, mode |-> mode]
Rel(locks, block) == [do |-> block, locks |-> locks]

\* the guards taken and dropped by put, get and sync, in program order
Program(op) ==
    CASE op = "put" ->
            <<Acq("index", "read"), Rel({"index"}, "contains_key"),
              Acq("write_offset", "write"), Acq("file", "write"),
              Rel({"file", "write_offset"}, "write_all"),
              Acq("index", "write"), Rel({"index"}, "insert")>>
      [] op = "get" ->
            <<Acq("index", "read"), Rel({"index"}, "entries.get"),
              Acq("file", "write"), Rel({"file"}, "read_exact")>>
      [] op = "sync" ->
            <<Acq("index", "read"), Acq("refs", "read"), Acq("head", "read"),
              Acq("write_offset", "read"), Rel({"write_offset"}, "copy"),
              Acq("file", "write"),
              Rel({"file", "head", "refs", "index"}, "sync_all")>>
      [] OTHER -> <<>>

RECURSIVE HeldAfter(_, _)
\* the guards alive after the first n steps of a program, oldest first
HeldAfter(prog, n) ==
    IF n = 0 THEN <<>>
    ELSE IF prog[n].do = "acquire"
    THEN Append(HeldAfter(prog, n - 1), <<prog[n].lock, prog[n].mode>>)
    ELSE SelectSeq(HeldAfter(prog, n - 1), LAMBDA g : g[1] \notin prog[n].locks)

\* the guards thread t holds; pc[t].i is the step it executes next
Holds(t) == HeldAfter(Program(pc[t].op), pc[t].i - 1)

\* RwLock: readers share, a writer excludes everyone
Free(t, lock, mode) ==
    \A u \in Threads \ {t} : \A k \in 1..Len(Holds(u)) :
        Holds(u)[k][1] = lock => (mode = "read" /\ Holds(u)[k][2] = "read")

NotCalling == [op |-> "idle", i |-> 1, arg |-> ZERO, local |-> ZERO]

InitLocks ==
    /\ store = create
    /\ pc = [t \in Threads |-> NotCalling]
    /\ root = Empty
    /\ model = <<>>
    /\ ret = Ret("create", ZERO)
    /\ wt = EmptyWT
    /\ synced = NeverSynced
    /\ nops = 0

Call(t, op, arg) ==
    /\ pc[t] = NotCalling
    /\ nops < MaxStoreOps
    /\ nops' = nops + 1
    /\ pc' = [pc EXCEPT ![t] = [op |-> op, i |-> 1, arg |-> arg, local |-> ZERO]]
    /\ UNCHANGED <<store, root, model, ret, wt, synced>>

AtBlock(t, op, block) ==
    /\ pc[t].op = op
    /\ pc[t].i <= Len(Program(op))
    /\ Program(op)[pc[t].i].do = block

Goto(t, local) == pc' = [pc EXCEPT ![t].i = @ + 1, ![t].local = local]
Return(t, val, early) ==
    /\ pc' = [pc EXCEPT ![t] = NotCalling]
    /\ ret' = [op |-> pc[t].op, val |-> val, early |-> early]

\* self.<lock>.read() or .write(): taken when no other thread excludes it
Acquire(t) ==
    /\ \E op \in {"put", "get", "sync"} : AtBlock(t, op, "acquire")
    /\ Free(t, Program(pc[t].op)[pc[t].i].lock, Program(pc[t].op)[pc[t].i].mode)
    /\ Goto(t, pc[t].local)
    /\ UNCHANGED <<store, root, model, ret, wt, synced, nops>>

\* put: if index.entries.contains_key(&hash) { return Ok(hash) }
PutContains(t) ==
    /\ AtBlock(t, "put", "contains_key")
    /\ IF contains(store, BlobHash(pc[t].arg))
       THEN Return(t, BlobHash(pc[t].arg), TRUE)
       ELSE Goto(t, ZERO) /\ ret' = ret
    /\ UNCHANGED <<store, root, model, wt, synced, nops>>

\* put: seek to write_offset, write the compressed blob, advance write_offset
PutWrite(t) ==
    /\ AtBlock(t, "put", "write_all")
    /\ store' = [store EXCEPT
          !.file.data = WriteAt(@, store.write_offset, CompressedLen(pc[t].arg),
                                <<"blob", Compress(pc[t].arg)>>),
          !.write_offset = @ + CompressedLen(pc[t].arg)]
    /\ Goto(t, store.write_offset)
    /\ UNCHANGED <<root, model, ret, wt, synced, nops>>

\* put: index.entries.insert(hash, IndexEntry { offset, size }); Ok(hash)
PutInsert(t) ==
    /\ AtBlock(t, "put", "insert")
    /\ store' = [store EXCEPT !.index =
          (BlobHash(pc[t].arg) :>
              [offset |-> pc[t].local, size |-> CompressedLen(pc[t].arg)]) @@ @]
    /\ Return(t, BlobHash(pc[t].arg), FALSE)
    /\ UNCHANGED <<root, model, wt, synced, nops>>

\* get: index.entries.get(hash).cloned(), NotFound when there is none
GetEntry(t) ==
    /\ AtBlock(t, "get", "entries.get")
    /\ IF contains(store, pc[t].arg)
       THEN Goto(t, store.index[pc[t].arg]) /\ ret' = ret
       ELSE Return(t, "NotFound", TRUE)
    /\ UNCHANGED <<store, root, model, wt, synced, nops>>

\* get: seek to entry.offset and read entry.size bytes
GetRead(t) ==
    /\ AtBlock(t, "get", "read_exact")
    /\ Return(t, ReadAt(store.file.data, pc[t].local.offset, pc[t].local.size), FALSE)
    /\ UNCHANGED <<store, root, model, wt, synced, nops>>

\* sync: let write_offset = *self.write_offset.read()
SyncCopy(t) ==
    /\ AtBlock(t, "sync", "copy")
    /\ Goto(t, store.write_offset)
    /\ UNCHANGED <<store, root, model, ret, wt, synced, nops>>

\* sync: the header, the index at the copied write_offset, the refs, sync_all
SyncAll(t) ==
    /\ AtBlock(t, "sync", "sync_all")
    /\ store' = [store EXCEPT !.file =
          ApplyWrites(@, SyncWrites([store EXCEPT !.write_offset = pc[t].local]))]
    /\ synced' = Durable(store)
    /\ Return(t, ZERO, FALSE)
    /\ UNCHANGED <<root, model, wt, nops>>

NextLocks ==
    \/ \E t \in Threads, b \in StoreBlobs : Call(t, "put", b)
    \/ \E t \in Threads, b \in StoreBlobs : Call(t, "get", BlobHash(b))
    \/ \E t \in Threads : Call(t, "sync", ZERO)
    \/ \E t \in Threads : Acquire(t)
    \/ \E t \in Threads : PutContains(t)
    \/ \E t \in Threads : PutWrite(t)
    \/ \E t \in Threads : PutInsert(t)
    \/ \E t \in Threads : GetEntry(t)
    \/ \E t \in Threads : GetRead(t)
    \/ \E t \in Threads : SyncCopy(t)
    \/ \E t \in Threads : SyncAll(t)

SpecLocks == InitLocks /\ [][NextLocks]_vars

\* write_offset before file before index
LockRank(lock) ==
    CASE lock = "write_offset" -> 1 [] lock = "file" -> 2 [] lock = "index" -> 3
      [] OTHER -> 0

\* C29: a thread holding more than one of the locks write_offset, file and
\* index has acquired them in the order write_offset, file, index
C29_LockOrder ==
    [](\A t \in Threads : \A a, b \in 1..Len(Holds(t)) :
          (a < b /\ LockRank(Holds(t)[a][1]) > 0 /\ LockRank(Holds(t)[b][1]) > 0) =>
              LockRank(Holds(t)[a][1]) < LockRank(Holds(t)[b][1]))

(***************************************************************************)
(* GraphView::neighbors with its edge type filter (graph/traversal.rs)     *)
(***************************************************************************)
\* neighbors: the id looked up for an edge
NeighborId(edge, id, direction) ==
    CASE direction = "Outgoing" -> edge.target
      [] direction = "Incoming" -> edge.source
      [] direction = "Both" -> IF edge.source = id THEN edge.target ELSE edge.source

\* GraphView::neighbors; edge_type is None (<<>>) or Some(t) (<<t>>)
neighbors(S, tree, id, direction, edge_type) ==
    With(GraphView(S, tree), LAMBDA view :
    IF ~view.ok THEN [ok |-> FALSE, results |-> <<>>]
    ELSE
    With(CASE direction = "Outgoing" -> EdgesOf(S, tree, "source", id)
           [] direction = "Incoming" -> EdgesOf(S, tree, "target", id)
           [] direction = "Both" -> EdgesOf(S, tree, "source", id)
                                       \o EdgesOf(S, tree, "target", id),
         LAMBDA edge_hashes :
    With([i \in DOMAIN edge_hashes |-> get_edge(S, edge_hashes[i]).edge[1]],
         LAMBDA edges :
    With(SelectSeq(edges, LAMBDA e : edge_type = <<>> \/ e.edge_type = edge_type[1]),
         LAMBDA kept :
    With([i \in DOMAIN kept |->
            [thought |-> view_get_thought(S, view, NeighborId(kept[i], id, direction)),
             edge |-> kept[i]]],
         LAMBDA found :
    With(SelectSeq(found, LAMBDA f : f.thought.thought # <<>>), LAMBDA some :
    [ok |-> \A i \in DOMAIN found : found[i].thought.ok,
     results |-> [i \in DOMAIN some |-> <<some[i].thought.thought[1], some[i].edge>>]]
    ))))))

(***************************************************************************)
(* Specification SpecView: a database whose first commit holds some        *)
(* thoughts and some edges, self-loops and edges to missing thoughts       *)
(* included, and a reader calling GraphView::neighbors on its tree.        *)
(***************************************************************************)
MaxViewEdges == 2

REL2 == <<115>>
ViewTypes == {REL, REL2}
ViewEdges == {Edge(s, t, ty) : s \in Ids, t \in Ids, ty \in ViewTypes}
Directions == {"Outgoing", "Incoming", "Both"}

\* the working tree after create_thought_with_id for ts and relate for es
ViewWorkingTree(ts, es) ==
    [EmptyWT EXCEPT !.thoughts = [id \in ts |-> Thought(id, "c1")],
                    !.edges = [k \in {edge_key(e) : e \in es} |->
                                  CHOOSE e \in es : edge_key(e) = k],
                    !.dirty = TRUE]

InitView ==
    \E ts \in SUBSET Ids, es \in SUBSET ViewEdges :
        /\ Cardinality(es) <= MaxViewEdges
        /\ ts # {} \/ es # {}
        /\ \E order \in {[thoughts |-> CHOOSE o \in Orders(ts) : TRUE,
                          removed_thoughts |-> <<>>,
                          edges |-> CHOOSE o \in Orders({edge_key(e) : e \in es}) : TRUE,
                          removed_edges |-> <<>>]} :
              store = commit_with_author(create, ViewWorkingTree(ts, es), order, "m").store
        /\ model = [thoughts |-> [id \in ts |-> Thought(id, "c1")], edges |-> es]
        /\ wt = EmptyWT
        /\ pc = Idle
        /\ root = Empty
        /\ ret = Ret("commit", ZERO)
        /\ synced = NeverSynced
        /\ nops = 0

Neighbors(id, direction, edge_type) ==
    /\ ret' = [op |-> "neighbors", early |-> FALSE,
               val |-> [id |-> id, direction |-> direction, edge_type |-> edge_type,
                        result |-> neighbors(store, head_tree(store).tree, id,
                                             direction, edge_type)]]
    /\ UNCHANGED <<store, pc, root, model, wt, synced, nops>>

NextView ==
    \E id \in Ids, direction \in Directions,
       edge_type \in {<<>>} \cup {<<ty>> : ty \in ViewTypes} :
          Neighbors(id, direction, edge_type)

SpecView == InitView /\ [][NextView]_vars

\* the edges of the view that neighbors(id, direction, edge_type) is to return
Incident(id, direction, edge_type) ==
    {e \in model.edges :
        /\ \/ direction \in {"Outgoing", "Both"} /\ e.source = id
           \/ direction \in {"Incoming", "Both"} /\ e.target = id
        /\ edge_type = <<>> \/ e.edge_type = edge_type[1]
        /\ NeighborId(e, id, direction) \in DOMAIN model.thoughts}

\* C30: neighbors(id, Outgoing, filter) returns exactly one pair (target
\* thought, edge) for every edge of the view with source id that matches the
\* filter and whose target is a thought of the view; Incoming is the same on
\* targets; Both returns every edge incident to id exactly once, with the
\* endpoint that is not id
C30_Neighbors ==
    [](ret.op = "neighbors" =>
          \A q \in {ret.val} :
             /\ q.result.ok
             /\ Len(q.result.results) =
                   Cardinality(Incident(q.id, q.direction, q.edge_type))
             /\ {q.result.results[i] : i \in 1..Len(q.result.results)} =
                   {<<model.thoughts[NeighborId(e, q.id, q.direction)], e>> :
                       e \in Incident(q.id, q.direction, q.edge_type)}
             /\ q.direction = "Both" =>
                   \A i \in 1..Len(q.result.results) : q.result.results[i][1].id # q.id)

(***************************************************************************)
(* Embedder (embedding/traits.rs), VectorSearch (search/vector.rs) and the *)
(* operations of Database that call them.  embedder is Database.embedder:  *)
(* None (<<>>) or Some (<<d>>, d the dimension of the embedder); embedded   *)
(* is what embedder.embed returned to the call: an error or a vector.      *)
(***************************************************************************)
\* Thought::with_id followed by thought.embedding = ...
EmbeddedThought(id, content, embedding) ==
    [id |-> id, content |-> content, embedding |-> embedding]

\* an update that records the thought before it asks for the embedding
embedder_update_thought_InsertFirst(S, W, embedder, id, content, embedded) ==
    With(db_get_thought(S, W, id), LAMBDA r :
        IF ~r.ok \/ r.thought = <<>> THEN [ok |-> FALSE, wt |-> W]
        ELSE [ok |-> embedder = <<>> \/ embedded.ok,
              wt |-> [W EXCEPT !.thoughts =
                         (id :> [r.thought[1] EXCEPT !.content = content]) @@ @,
                               !.dirty = TRUE]])

\* Database::create_thought and Database::create_thought_with_id; for
\* create_thought id is the id Thought::new generated
embedder_create_thought(W, embedder, id, content, embedded) ==
    IF embedder # <<>> /\ ~embedded.ok THEN [ok |-> FALSE, wt |-> W]
    ELSE [ok |-> TRUE,
          wt |-> [W EXCEPT
                    !.thoughts =
                        (id :> EmbeddedThought(id, content,
                                  IF embedder = <<>> THEN <<>> ELSE <<embedded.v>>)) @@ @,
                    !.removed_thoughts = @ \ {id},
                    !.dirty = TRUE]]

\* Database::update_thought with the embedder
embedder_update_thought(S, W, embedder, id, content, embedded) ==
    With(db_get_thought(S, W, id), LAMBDA r :
        IF ~r.ok \/ r.thought = <<>> THEN [ok |-> FALSE, wt |-> W]
        ELSE IF embedder # <<>> /\ ~embedded.ok THEN [ok |-> FALSE, wt |-> W]
        ELSE [ok |-> TRUE,
              wt |-> [W EXCEPT
                        !.thoughts =
                            (id :> [r.thought[1] EXCEPT
                                      !.content = content,
                                      !.embedding = IF embedder = <<>> THEN @
                                                    ELSE <<embedded.v>>]) @@ @,
                        !.dirty = TRUE]])

RECURSIVE Dot(_, _)
Dot(a, b) == IF a = <<>> THEN 0 ELSE Head(a) * Head(b) + Dot(Tail(a), Tail(b))

\* a score dot / sqrt(norm2), kept as the pair so that scores compare exactly
Score(dot, norm2) == [dot |-> dot, norm2 |-> norm2]

\* cosine_similarity; "panic" when assert_eq!(a.len(), b.len()) fails
cosine_similarity(a, b) ==
    IF Len(a) # Len(b) THEN "panic"
    ELSE IF Dot(a, a) = 0 \/ Dot(b, b) = 0 THEN Score(0, 1)
    ELSE Score(Dot(a, b), Dot(a, a) * Dot(b, b))

\* s >= t for two scores
ScoreGE(s, t) ==
    IF s.dot >= 0 /\ t.dot <= 0 THEN TRUE
    ELSE IF s.dot < 0 /\ t.dot >= 0 THEN FALSE
    ELSE IF s.dot >= 0 THEN s.dot * s.dot * t.norm2 >= t.dot * t.dot * s.norm2
    ELSE s.dot * s.dot * t.norm2 <= t.dot * t.dot * s.norm2

RECURSIVE SortByScore(_)
\* results.sort(): stable, higher scores first (Ord for SearchResult)
SortByScore(results) ==
    IF results = <<>> THEN <<>>
    ELSE With(SortByScore(Take(results, Len(results) - 1)), LAMBDA sorted :
         With(results[Len(results)], LAMBDA x :
         With(Cardinality({i \in DOMAIN sorted : ScoreGE(sorted[i].score, x.score)}),
              LAMBDA k :
         Take(sorted, k) \o <<x>> \o Drop(sorted, k))))

\* a search that returns the matches in the order the view lists them
vector_search_Unsorted(thoughts, query_embedding, threshold, limit) ==
    With(SelectSeq(thoughts, LAMBDA t : t.embedding # <<>>), LAMBDA embedded :
    IF \E i \in DOMAIN embedded : Len(embedded[i].embedding[1]) # Len(query_embedding)
    THEN [ok |-> FALSE, panic |-> TRUE, results |-> <<>>]
    ELSE
    With([i \in DOMAIN embedded |->
            [thought |-> embedded[i],
             score |-> cosine_similarity(query_embedding, embedded[i].embedding[1])]],
         LAMBDA scored :
    With(SelectSeq(scored, LAMBDA r : threshold = <<>> \/ ScoreGE(r.score, threshold[1])),
         LAMBDA results :
    [ok |-> TRUE, panic |-> FALSE,
     results |-> Take(results, Min(limit, Len(results)))])))

\* VectorSearch::search (threshold <<>>) and VectorSearch::search_with_threshold
\* (threshold <<t>>) over thoughts, the Vec that view.all_thoughts() returned
vector_search(thoughts, query_embedding, threshold, limit) ==
    With(SelectSeq(thoughts, LAMBDA t : t.embedding # <<>>), LAMBDA embedded :
    IF \E i \in DOMAIN embedded : Len(embedded[i].embedding[1]) # Len(query_embedding)
    THEN [ok |-> FALSE, panic |-> TRUE, results |-> <<>>]
    ELSE
    With([i \in DOMAIN embedded |->
            [thought |-> embedded[i],
             score |-> cosine_similarity(query_embedding, embedded[i].embedding[1])]],
         LAMBDA scored :
    With(SelectSeq(scored, LAMBDA r : threshold = <<>> \/ ScoreGE(r.score, threshold[1])),
         LAMBDA results :
    With(SortByScore(results), LAMBDA sorted :
    [ok |-> TRUE, panic |-> FALSE,
     results |-> Take(sorted, Min(limit, Len(sorted)))]))))

\* Database::search and Database::search_with_threshold; embedded is what
\* embedder.embed(query) returned, order the iteration order of the view's
\* thought_index
db_search(S, embedder, embedded, threshold, limit, order) ==
    IF embedder = <<>> \/ ~embedded.ok
    THEN [ok |-> FALSE, panic |-> FALSE, results |-> <<>>]
    ELSE
    With(head_tree(S), LAMBDA tree_hash :
    IF ~tree_hash.ok THEN [ok |-> FALSE, panic |-> FALSE, results |-> <<>>]
    ELSE IF is_zero(tree_hash.tree) THEN [ok |-> TRUE, panic |-> FALSE, results |-> <<>>]
    ELSE
    With(GraphView(S, tree_hash.tree), LAMBDA view :
    IF ~view.ok THEN [ok |-> FALSE, panic |-> FALSE, results |-> <<>>]
    ELSE
    With(SelectSeq(order, LAMBDA id : id \in DOMAIN view.thought_index), LAMBDA ids :
    With([i \in DOMAIN ids |-> get_thought(S, view.thought_index[ids[i]])], LAMBDA loaded :
    IF \E i \in DOMAIN loaded : ~loaded[i].ok
    THEN [ok |-> FALSE, panic |-> FALSE, results |-> <<>>]
    ELSE vector_search([i \in DOMAIN loaded |-> loaded[i].thought[1]],
                       embedded.v, threshold, limit)))))

(***************************************************************************)
(* Specification SpecEmbed: one owner of a Database with an embedder,      *)
(* creating and updating thoughts, committing, replacing the embedder and  *)
(* searching.  Every embed call may fail or return a vector of the         *)
(* embedder's dimension.                                                   *)
(***************************************************************************)
MaxEmbedOps == 4

Dimensions == {1, 2}
Components == {0, 1}
Vectors(d) == [1..d -> Components]
Embedders == {<<>>} \cup {<<d>> : d \in Dimensions}

\* what embedder.embed(text) may return
EmbedResults(embedder) ==
    IF embedder = <<>> THEN {[ok |-> FALSE]}
    ELSE {[ok |-> FALSE]} \cup {[ok |-> TRUE, v |-> v] : v \in Vectors(embedder[1])}

Limits == {1, 2}
Thresholds == {<<>>, <<Score(1, 2)>>}

\* Database::create, then with_embedder or not
InitEmbed ==
    /\ store = create
    /\ wt = EmptyWT
    /\ model \in [embedder : Embedders]
    /\ pc = Idle
    /\ root = Empty
    /\ ret = Ret("create", ZERO)
    /\ synced = NeverSynced
    /\ nops = 0

EmbedStep == pc = Idle /\ nops < MaxEmbedOps /\ nops' = nops + 1

EmbedRet(op, ok, id, embedded) ==
    [op |-> op, early |-> ~ok,
     val |-> [id |-> id, embedder |-> model.embedder, embedded |-> embedded]]

SetEmbedder(d) ==
    /\ EmbedStep
    /\ model' = [embedder |-> <<d>>]
    /\ ret' = Ret("set_embedder", ZERO)
    /\ UNCHANGED <<store, pc, root, wt, synced>>

\* create_thought: the id is the one ThoughtId::generate returns
EmbedCreateThought(content, embedded) ==
    /\ EmbedStep
    /\ \E id \in Ids :
       \E r \in {embedder_create_thought(wt, model.embedder, id, content, embedded)} :
          wt' = r.wt /\ ret' = EmbedRet("create_thought", r.ok, id, embedded)
    /\ UNCHANGED <<store, pc, root, model, synced>>

EmbedCreateThoughtWithId(id, content, embedded) ==
    /\ EmbedStep
    /\ \E r \in {embedder_create_thought(wt, model.embedder, id, content, embedded)} :
          wt' = r.wt /\ ret' = EmbedRet("create_thought_with_id", r.ok, id, embedded)
    /\ UNCHANGED <<store, pc, root, model, synced>>

EmbedUpdateThought(id, content, embedded) ==
    /\ EmbedStep
    /\ \E r \in {embedder_update_thought(store, wt, model.embedder, id, content, embedded)} :
          wt' = r.wt /\ ret' = EmbedRet("update_thought", r.ok, id, embedded)
    /\ UNCHANGED <<store, pc, root, model, synced>>

EmbedCommit(order) ==
    /\ EmbedStep
    /\ \E r \in {commit_with_author(store, wt, order, "m")} :
          /\ store' = r.store
          /\ wt' = r.wt
          /\ ret' = RetOk("commit", r.ok, r.hash)
    /\ UNCHANGED <<pc, root, model, synced>>

\* search (threshold <<>>) and search_with_threshold (threshold <<t>>)
Search(embedded, threshold, limit, order) ==
    /\ EmbedStep
    /\ \E r \in {db_search(store, model.embedder, embedded, threshold, limit, order)} :
          /\ ret' = [op |-> IF threshold = <<>> THEN "search" ELSE "search_with_threshold",
                     early |-> ~r.ok,
                     val |-> [embedded |-> embedded, threshold |-> threshold,
                              limit |-> limit, results |-> r.results]]
          /\ pc' = IF r.panic THEN At("panicked") ELSE pc
    /\ UNCHANGED <<store, root, model, wt, synced>>

NextEmbed ==
    \/ \E d \in Dimensions : SetEmbedder(d)
    \/ \E embedded \in EmbedResults(model.embedder) : EmbedCreateThought("c1", embedded)
    \/ \E id \in Ids, embedded \in EmbedResults(model.embedder) :
          EmbedCreateThoughtWithId(id, "c1", embedded)
    \/ \E id \in Ids, embedded \in EmbedResults(model.embedder) :
          EmbedUpdateThought(id, "c2", embedded)
    \/ \E order \in CommitOrders : EmbedCommit(order)
    \/ \E embedded \in EmbedResults(model.embedder), threshold \in Thresholds,
          limit \in Limits, order \in Orders(Ids) :
          Search(embedded, threshold, limit, order)

SpecEmbed == InitEmbed /\ [][NextEmbed]_vars

\* C22: when the embed call of create_thought, create_thought_with_id or
\* update_thought fails, the operation returns an error and the working tree,
\* its upserts, tombstones and dirty flag, is as it was before the call
C22_EmbedFails ==
    [][(/\ ret'.op \in {"create_thought", "create_thought_with_id", "update_thought"}
        /\ nops' # nops
        /\ ret'.val.embedder # <<>>
        /\ ~ret'.val.embedded.ok) =>
           ret'.early /\ wt' = wt]_vars

\* an update of a pending thought was refused because embed failed, and the
\* thought and the dirty flag are still those of the create
C22_Witness ==
    /\ ret.op = "update_thought"
    /\ ret.early
    /\ ret.val.embedder # <<>>
    /\ ~ret.val.embedded.ok
    /\ ret.val.id \in DOMAIN wt.thoughts
    /\ wt.thoughts[ret.val.id].content = "c1"
    /\ wt.dirty

\* the thoughts of the view at the head commit
ViewThoughts(S) ==
    IF is_zero(head_tree(S).tree) THEN {}
    ELSE {get_thought(S, h).thought[1] :
             h \in {TreeGet(S, head_tree(S).tree, ThoughtKey(id)) : id \in Ids} \ {NONE}}

\* C21: search and search_with_threshold return results in non-increasing
\* score order, at most limit of them, each a thought of the view that has an
\* embedding with its cosine similarity to the query; no thought left out
\* scores higher than a returned one, and thoughts are left out only when
\* limit is reached or their score is below the threshold; with a threshold
\* every returned score is at least the threshold
C21_Search ==
    [](ret.op \in {"search", "search_with_threshold"} /\ ~ret.early =>
          \A res \in {ret.val.results} : \A query \in {ret.val.embedded.v} :
          \A candidates \in {{t \in ViewThoughts(store) : t.embedding # <<>>}} :
             /\ \A i, j \in DOMAIN res : i < j => ScoreGE(res[i].score, res[j].score)
             /\ Len(res) <= ret.val.limit
             /\ \A i \in DOMAIN res :
                   /\ res[i].thought \in candidates
                   /\ res[i].score = cosine_similarity(query, res[i].thought.embedding[1])
                   /\ \A j \in DOMAIN res : i # j => res[i].thought.id # res[j].thought.id
                   /\ ret.val.threshold # <<>> => ScoreGE(res[i].score, ret.val.threshold[1])
             /\ \A t \in candidates \ {res[i].thought : i \in DOMAIN res} :
                   \/ /\ ret.val.threshold # <<>>
                      /\ ~ScoreGE(cosine_similarity(query, t.embedding[1]),
                                  ret.val.threshold[1])
                   \/ /\ Len(res) = ret.val.limit
                      /\ \A i \in DOMAIN res :
                            ScoreGE(res[i].score, cosine_similarity(query, t.embedding[1])))

\* a search with limit 1 over two embedded thoughts returned the one that
\* scores strictly higher
C21_Witness ==
    /\ ret.op = "search"
    /\ ~ret.early
    /\ ret.val.limit = 1
    /\ Len(ret.val.results) = 1
    /\ \E t \in ViewThoughts(store) :
          /\ t.embedding # <<>>
          /\ t.id # ret.val.results[1].thought.id
          /\ ~ScoreGE(cosine_similarity(ret.val.embedded.v, t.embedding[1]),
                      ret.val.results[1].score)

\* C27: every operation of the database returns a value or an error and never
\* aborts, whatever the dimension of the embedder; search and
\* search_with_threshold in particular when committed embeddings differ in
\* length from the query embedding
C27_NeverPanics == [](pc.at # "panicked")

(***************************************************************************)
(* GraphView::bfs and GraphView::shortest_path (graph/traversal.rs)        *)
(***************************************************************************)
RECURSIVE bfs_visit(_, _, _)
\* bfs: the for loop over the (thought, edge) pairs of one neighbors call
bfs_visit(st, pairs, depth) ==
    IF pairs = <<>> THEN st
    ELSE IF Head(pairs)[1].id \in st.visited THEN bfs_visit(st, Tail(pairs), depth)
    ELSE bfs_visit([visited |-> st.visited \cup {Head(pairs)[1].id},
                    results |-> Append(st.results, <<Head(pairs)[1], depth + 1>>),
                    queue |-> Append(st.queue, <<Head(pairs)[1].id, depth + 1>>)],
                   Tail(pairs), depth)

RECURSIVE bfs_loop(_, _, _)
\* bfs: while let Some((current_id, depth)) = queue.pop_front(); nbrs[id] is
\* what self.neighbors(id, direction, None) returns
bfs_loop(nbrs, max_depth, st) ==
    IF st.queue = <<>> THEN [ok |-> TRUE, results |-> st.results]
    ELSE IF max_depth # <<>> /\ Head(st.queue)[2] >= max_depth[1]
    THEN bfs_loop(nbrs, max_depth, [st EXCEPT !.queue = Tail(@)])
    ELSE IF ~nbrs[Head(st.queue)[1]].ok THEN [ok |-> FALSE, results |-> <<>>]
    ELSE bfs_loop(nbrs, max_depth,
                  bfs_visit([st EXCEPT !.queue = Tail(@)],
                            nbrs[Head(st.queue)[1]].results, Head(st.queue)[2]))

\* a bfs that does not look at max_depth
bfs_NoLimit(S, tree, ids, start, direction, max_depth) ==
    With(GraphView(S, tree), LAMBDA view :
    With(view_get_thought(S, view, start), LAMBDA first :
    With([id \in ids |-> neighbors(S, tree, id, direction, <<>>)], LAMBDA nbrs :
    IF ~view.ok \/ ~first.ok THEN [ok |-> FALSE, results |-> <<>>]
    ELSE IF first.thought = <<>> THEN [ok |-> TRUE, results |-> <<>>]
    ELSE bfs_loop(nbrs, <<>>,
                  [visited |-> {start}, results |-> <<<<first.thought[1], 0>>>>,
                   queue |-> <<<<start, 0>>>>]))))

\* GraphView::bfs; max_depth is None (<<>>) or Some(m) (<<m>>); ids are the
\* ids neighbors may be asked about
bfs(S, tree, ids, start, direction, max_depth) ==
    With(GraphView(S, tree), LAMBDA view :
    With(view_get_thought(S, view, start), LAMBDA first :
    With([id \in ids |-> neighbors(S, tree, id, direction, <<>>)], LAMBDA nbrs :
    IF ~view.ok \/ ~first.ok THEN [ok |-> FALSE, results |-> <<>>]
    ELSE IF first.thought = <<>> THEN [ok |-> TRUE, results |-> <<>>]
    ELSE bfs_loop(nbrs, max_depth,
                  [visited |-> {start}, results |-> <<<<first.thought[1], 0>>>>,
                   queue |-> <<<<start, 0>>>>]))))

RECURSIVE PathTo(_, _, _)
\* shortest_path: the walk back over predecessors, already reversed
PathTo(predecessors, curr, path) ==
    IF curr \in DOMAIN predecessors
    THEN PathTo(predecessors, predecessors[curr], <<predecessors[curr]>> \o path)
    ELSE path

RECURSIVE path_visit(_, _, _, _)
\* shortest_path: the for loop over the pairs of one neighbors call
path_visit(st, pairs, current, to) ==
    IF pairs = <<>> \/ st.found # <<>> THEN st
    ELSE IF Head(pairs)[1].id \in st.visited THEN path_visit(st, Tail(pairs), current, to)
    ELSE With((Head(pairs)[1].id :> current) @@ st.predecessors, LAMBDA preds :
         IF Head(pairs)[1].id = to
         THEN [st EXCEPT !.found = <<PathTo(preds, to, <<to>>)>>]
         ELSE path_visit([visited |-> st.visited \cup {Head(pairs)[1].id},
                          predecessors |-> preds,
                          queue |-> Append(st.queue, Head(pairs)[1].id),
                          found |-> <<>>],
                         Tail(pairs), current, to))

RECURSIVE path_loop(_, _, _)
path_loop(nbrs, to, st) ==
    IF st.found # <<>> THEN [ok |-> TRUE, path |-> st.found]
    ELSE IF st.queue = <<>> THEN [ok |-> TRUE, path |-> <<>>]
    ELSE IF ~nbrs[Head(st.queue)].ok THEN [ok |-> FALSE, path |-> <<>>]
    ELSE path_loop(nbrs, to,
                   path_visit([st EXCEPT !.queue = Tail(@)],
                              nbrs[Head(st.queue)].results, Head(st.queue), to))

\* a shortest_path that follows edges from source to target only
shortest_path_Outgoing(S, tree, ids, from, to) ==
    IF from = to THEN [ok |-> TRUE, path |-> <<<<from>>>>]
    ELSE With([id \in ids |-> neighbors(S, tree, id, "Outgoing", <<>>)], LAMBDA nbrs :
         path_loop(nbrs, to,
                   [visited |-> {from}, predecessors |-> <<>>, queue |-> <<from>>,
                    found |-> <<>>]))

\* GraphView::shortest_path; path is None (<<>>) or Some(ids) (<<ids>>)
shortest_path(S, tree, ids, from, to) ==
    IF from = to THEN [ok |-> TRUE, path |-> <<<<from>>>>]
    ELSE With([id \in ids |-> neighbors(S, tree, id, "Both", <<>>)], LAMBDA nbrs :
         path_loop(nbrs, to,
                   [visited |-> {from}, predecessors |-> <<>>, queue |-> <<from>>,
                    found |-> <<>>]))

(***************************************************************************)
(* Specification SpecGraph: a database whose first commit holds some of    *)
(* three thoughts and up to MaxGraphEdges edges between the three ids,     *)
(* cycles, self-loops and edges at a missing thought included, and a       *)
(* reader making one call of bfs or shortest_path on the view of its tree. *)
(***************************************************************************)
MaxGraphEdges == 3

ID_B == <<98>>
GraphIds == {ID_A, ID_AB, ID_B}
GraphEdges == {Edge(s, t, REL) : s \in GraphIds, t \in GraphIds}
MaxDepths == {<<>>, <<0>>, <<1>>}

InitGraph ==
    \E ts \in SUBSET GraphIds, es \in SUBSET GraphEdges :
        /\ Cardinality(ts) >= 2
        /\ Cardinality(es) <= MaxGraphEdges
        /\ \E order \in {[thoughts |-> CHOOSE o \in Orders(ts) : TRUE,
                          removed_thoughts |-> <<>>,
                          edges |-> CHOOSE o \in Orders({edge_key(e) : e \in es}) : TRUE,
                          removed_edges |-> <<>>]} :
              store = commit_with_author(create, ViewWorkingTree(ts, es), order, "m").store
        /\ model = [thoughts |-> [id \in ts |-> Thought(id, "c1")], edges |-> es]
        /\ wt = EmptyWT
        /\ pc = Idle
        /\ root = Empty
        /\ ret = Ret("commit", ZERO)
        /\ synced = NeverSynced
        /\ nops = 0

Bfs(start, direction, max_depth) ==
    /\ nops = 0
    /\ nops' = 1
    /\ ret' = [op |-> "bfs", early |-> FALSE,
               val |-> [start |-> start, direction |-> direction,
                        max_depth |-> max_depth,
                        result |-> bfs(store, head_tree(store).tree, GraphIds, start,
                                       direction, max_depth)]]
    /\ UNCHANGED <<store, pc, root, model, wt, synced>>

ShortestPath(from, to) ==
    /\ nops = 0
    /\ nops' = 1
    /\ ret' = [op |-> "shortest_path", early |-> FALSE,
               val |-> [from |-> from, to |-> to,
                        result |-> shortest_path(store, head_tree(store).tree,
                                                 GraphIds, from, to)]]
    /\ UNCHANGED <<store, pc, root, model, wt, synced>>

NextGraph ==
    \/ \E start \in GraphIds, direction \in Directions, max_depth \in MaxDepths :
          Bfs(start, direction, max_depth)
    \/ \E from \in GraphIds, to \in GraphIds : ShortestPath(from, to)

SpecGraph == InitGraph /\ [][NextGraph]_vars

\* the ids one edge away from id in the given direction
Adjacent(id, direction) ==
    {n \in GraphIds : \E e \in model.edges :
        \/ direction \in {"Outgoing", "Both"} /\ e.source = id /\ e.target = n
        \/ direction \in {"Incoming", "Both"} /\ e.target = id /\ e.source = n}

RECURSIVE Within(_, _, _)
\* the thoughts at most k edges from start, every step ending at a thought
Within(start, direction, k) ==
    IF k = 0 THEN {start}
    ELSE LET near == Within(start, direction, k - 1)
         IN  near \cup {n \in DOMAIN model.thoughts :
                           \E m \in near : n \in Adjacent(m, direction)}

RECURSIVE IdsWithin(_, _)
\* the ids at most k edges from id, edges taken in either direction
IdsWithin(id, k) ==
    IF k = 0 THEN {id}
    ELSE LET near == IdsWithin(id, k - 1)
         IN  near \cup {n \in GraphIds : \E m \in near : n \in Adjacent(m, "Both")}

\* path starts with from, ends with to, and consecutive ids share an edge
Joins(path, from, to) ==
    /\ path[1] = from
    /\ path[Len(path)] = to
    /\ \A i \in 1..(Len(path) - 1) : path[i + 1] \in Adjacent(path[i], "Both")

\* C32: shortest_path(from, to) returns ids that start with from, end with to
\* and are joined by edges of the view in either direction, as few as any
\* such sequence has; it returns absent exactly when there is no such sequence
C32_ShortestPath ==
    [](ret.op = "shortest_path" =>
          \A q \in {ret.val} : \A most \in {Cardinality(GraphIds)} :
             /\ q.result.ok
             /\ q.result.path = <<>> <=> q.to \notin IdsWithin(q.from, most)
             /\ q.result.path # <<>> =>
                   /\ Joins(q.result.path[1], q.from, q.to)
                   /\ q.to \in IdsWithin(q.from, Len(q.result.path[1]) - 1)
                   /\ Len(q.result.path[1]) > 1 =>
                         q.to \notin IdsWithin(q.from, Len(q.result.path[1]) - 2))

\* C32 as the code has it: every id after the first is a thought of the
\* view.  shortest_path(from, to) returns a shortest sequence of ids from from
\* to to joined by edges in either direction whose ids after from are all
\* thoughts of the view, and absent exactly when there is none
C32_ShortestPathThoughts ==
    [](ret.op = "shortest_path" =>
          \A q \in {ret.val} : \A most \in {Cardinality(GraphIds)} :
             /\ q.result.ok
             /\ q.result.path = <<>> <=> q.to \notin Within(q.from, "Both", most)
             /\ q.result.path # <<>> =>
                   /\ Joins(q.result.path[1], q.from, q.to)
                   /\ \A i \in 2..Len(q.result.path[1]) :
                         q.result.path[1][i] \in DOMAIN model.thoughts
                   /\ q.to \in Within(q.from, "Both", Len(q.result.path[1]) - 1)
                   /\ Len(q.result.path[1]) > 1 =>
                         q.to \notin Within(q.from, "Both", Len(q.result.path[1]) - 2))

\* the direct edge was returned although a way over the third thought exists
C32_Witness ==
    /\ ret.op = "shortest_path"
    /\ ret.val.result.path # <<>>
    /\ Len(ret.val.result.path[1]) = 2
    /\ \E m \in DOMAIN model.thoughts \ {ret.val.from, ret.val.to} :
          /\ m \in Adjacent(ret.val.from, "Both")
          /\ ret.val.to \in Adjacent(m, "Both")

\* C33: two searches with the same query, limit and threshold over the same
\* tree return the same ids in the same order: results of equal score come in
\* ascending thought id order, and a thought left out at the limit does not
\* come before a returned thought of equal score, whatever the iteration
\* order of the view's index
C33_SearchTieBreak ==
    [](ret.op \in {"search", "search_with_threshold"} /\ ~ret.early =>
          \A res \in {ret.val.results} : \A query \in {ret.val.embedded.v} :
             /\ \A i, j \in DOMAIN res :
                   (/\ i < j
                    /\ ScoreGE(res[j].score, res[i].score)) =>
                      LexLess(res[i].thought.id, res[j].thought.id)
             /\ \A t \in {t \in ViewThoughts(store) : t.embedding # <<>>} :
                \A i \in DOMAIN res :
                   (/\ t.id \notin {res[k].thought.id : k \in DOMAIN res}
                    /\ Len(t.embedding[1]) = Len(query)
                    /\ ScoreGE(cosine_similarity(query, t.embedding[1]), res[i].score)) =>
                      LexLess(res[i].thought.id, t.id))

(***************************************************************************)
(* SyncClient (remote/sync.rs).  The remote API is outside the program:    *)
(* what it answers to each request is an input of push.  A request is      *)
(* named by its method and endpoint; answers are "ok", "404" (not found)   *)
(* and "error" (no answer, another status, or a body that does not parse). *)
(***************************************************************************)
GET_BASE == "GET /bases/by-name/{owner}/{name}"
GET_STATUS == "GET /bases/{id}/status"
POST_BASE == "POST /bases"
POST_PUSH == "POST /bases/{id}/push"

CONFLICT == "Conflict detected: local and remote have diverged. Use --force to overwrite, or pull first."

\* SyncClient::get_base
get_base(answer) ==
    [sent |-> <<GET_BASE>>, ok |-> answer # "error",
     id |-> IF answer = "ok" THEN <<"id">> ELSE <<>>]

\* SyncClient::create_base
create_base(answer) ==
    [sent |-> <<POST_BASE>>, ok |-> answer = "ok"]

\* SyncClient::ensure_base
ensure_base(answers) ==
    With(get_base(answers.base2), LAMBDA g :
        IF ~g.ok \/ g.id # <<>> THEN [sent |-> g.sent, ok |-> g.ok]
        ELSE With(create_base(answers.create), LAMBDA c :
             [sent |-> g.sent \o c.sent, ok |-> c.ok]))

\* SyncClient::status; status is <<>> for None and <<RemoteStatus>> for Some
status(answers) ==
    With(get_base(answers.base1), LAMBDA g :
        IF ~g.ok THEN [sent |-> g.sent, ok |-> FALSE, status |-> <<>>]
        ELSE IF g.id = <<>> THEN [sent |-> g.sent, ok |-> TRUE, status |-> <<>>]
        ELSE IF answers.status.code = "404"
        THEN [sent |-> Append(g.sent, GET_STATUS), ok |-> TRUE, status |-> <<>>]
        ELSE IF answers.status.code = "error"
        THEN [sent |-> Append(g.sent, GET_STATUS), ok |-> FALSE, status |-> <<>>]
        ELSE [sent |-> Append(g.sent, GET_STATUS), ok |-> TRUE,
              status |-> <<[head_hash |-> answers.status.head_hash]>>])

\* SyncClient::get_local_head; head is <<>> for None and <<hex>> for Some
get_local_head(exists, file) ==
    IF ~exists THEN [ok |-> TRUE, head |-> <<>>]
    ELSE With(open(file), LAMBDA db :
         IF ~db.ok THEN [ok |-> FALSE, head |-> <<>>]
         ELSE With(log(db.store, <<1>>), LAMBDA l :
              IF ~l.ok THEN [ok |-> FALSE, head |-> <<>>]
              ELSE IF l.entries = <<>> THEN [ok |-> TRUE, head |-> <<>>]
              ELSE [ok |-> TRUE, head |-> <<to_hex(l.entries[1][1])>>]))

\* the match of SyncClient::compare
SyncStateOf(local_head, remote_status) ==
    IF local_head = <<>> /\ remote_status = <<>> THEN "RemoteEmpty"
    ELSE IF remote_status = <<>> THEN "LocalAhead"
    ELSE IF local_head = <<>>
    THEN IF remote_status[1].head_hash # <<>> THEN "LocalEmpty" ELSE "InSync"
    ELSE IF remote_status[1].head_hash = <<>> THEN "LocalAhead"
    ELSE IF remote_status[1].head_hash = local_head THEN "InSync"
    ELSE "Diverged"

\* a compare that takes different heads for a local that is ahead
compare_Ahead(exists, file, answers) ==
    With(get_local_head(exists, file), LAMBDA l :
        IF ~l.ok THEN [sent |-> <<>>, ok |-> FALSE, state |-> ""]
        ELSE With(status(answers), LAMBDA s :
             IF ~s.ok THEN [sent |-> s.sent, ok |-> FALSE, state |-> ""]
             ELSE [sent |-> s.sent, ok |-> TRUE,
                   state |-> IF SyncStateOf(l.head, s.status) = "Diverged"
                             THEN "LocalAhead"
                             ELSE SyncStateOf(l.head, s.status)]))

\* SyncClient::compare
compare(exists, file, answers) ==
    With(get_local_head(exists, file), LAMBDA l :
        IF ~l.ok THEN [sent |-> <<>>, ok |-> FALSE, state |-> ""]
        ELSE With(status(answers), LAMBDA s :
             IF ~s.ok THEN [sent |-> s.sent, ok |-> FALSE, state |-> ""]
             ELSE [sent |-> s.sent, ok |-> TRUE,
                   state |-> SyncStateOf(l.head, s.status)]))

has_conflict(state) == state = "Diverged"
can_push(state) == state \in {"InSync", "LocalAhead", "RemoteEmpty"}

\* the upload of SyncClient::push, after the conflict check
push_upload(exists, file, answers, sent) ==
    With(get_local_head(exists, file), LAMBDA l :
        IF ~l.ok \/ ~exists    \* get_local_head or std::fs::read fails
        THEN [ok |-> FALSE, sent |-> sent, response |-> <<>>]
        ELSE With(ensure_base(answers), LAMBDA b :
             IF ~b.ok THEN [ok |-> FALSE, sent |-> sent \o b.sent, response |-> <<>>]
             ELSE With(sent \o b.sent \o <<POST_PUSH>>, LAMBDA all :
                  IF answers.push = "error"
                  THEN [ok |-> FALSE, sent |-> all, response |-> <<>>]
                  ELSE IF answers.push = "status"
                  THEN [ok |-> TRUE, sent |-> all,
                        response |-> <<[success |-> FALSE, error |-> "Push failed"]>>]
                  ELSE [ok |-> TRUE, sent |-> all,
                        response |-> <<[success |-> TRUE, error |-> ""]>>])))

\* SyncClient::push
push(exists, file, answers, force) ==
    IF force THEN push_upload(exists, file, answers, <<>>)
    ELSE With(compare(exists, file, answers), LAMBDA c :
         IF ~c.ok THEN [ok |-> FALSE, sent |-> c.sent, response |-> <<>>]
         ELSE IF has_conflict(c.state)
         THEN [ok |-> TRUE, sent |-> c.sent,
               response |-> <<[success |-> FALSE, error |-> CONFLICT]>>]
         ELSE IF ~can_push(c.state) /\ c.state = "RemoteAhead"
         THEN [ok |-> TRUE, sent |-> c.sent,
               response |-> <<[success |-> FALSE, error |-> "Remote is ahead"]>>]
         ELSE push_upload(exists, file, answers, c.sent))

(***************************************************************************)
(* Specification SpecPush: a local database file that is missing, new or   *)
(* holds one of two first commits, and one call of push against a remote   *)
(* that answers each request in every way.                                 *)
(***************************************************************************)
PushStores ==
    {create} \cup
    {commit_with_author(create, ViewWorkingTree({id}, {}),
                        [thoughts |-> <<id>>, removed_thoughts |-> <<>>,
                         edges |-> <<>>, removed_edges |-> <<>>], "m").store :
        id \in Ids}

\* the head hashes a remote reports
RemoteHeads == {<<>>} \cup {<<to_hex(head_commit(S))>> : S \in PushStores \ {create}}

Answers ==
    [base1 : {"ok", "404", "error"},
     status : [code : {"404", "error"}, head_hash : {<<>>}] \cup
              [code : {"ok"}, head_hash : RemoteHeads],
     base2 : {"ok", "404", "error"},
     create : {"ok", "error"},
     push : {"ok", "status", "error"}]

InitPush ==
    \E S \in PushStores, exists \in BOOLEAN :
        /\ exists \/ S = create
        /\ store = sync(S)
        /\ model = [exists |-> exists]
        /\ wt = EmptyWT
        /\ pc = Idle
        /\ root = Empty
        /\ ret = Ret("open", ZERO)
        /\ synced = NeverSynced
        /\ nops = 0

Push(answers, force) ==
    /\ nops = 0
    /\ nops' = 1
    /\ \E r \in {push(model.exists, store.file, answers, force)} :
          ret' = [op |-> "push", early |-> ~r.ok,
                  val |-> [answers |-> answers, force |-> force,
                           sent |-> r.sent, response |-> r.response]]
    /\ UNCHANGED <<store, pc, root, model, wt, synced>>

NextPush == \E answers \in Answers, force \in BOOLEAN : Push(answers, force)

SpecPush == InitPush /\ [][NextPush]_vars

\* the call sent this request
Sent(request) == \E i \in DOMAIN ret.val.sent : ret.val.sent[i] = request

\* C34: a push without force, when the local file has a head commit and the
\* remote reports a head that differs from it, sends no push request and
\* returns success = false with the conflict message; a push with force
\* never asks for the remote's status and sends the push request whenever
\* the file can be read and the base is found or created
C34_PushConflict ==
    [](ret.op = "push" =>
          \A local \in {get_local_head(model.exists, store.file)} :
          \A q \in {ret.val} :
             /\ (/\ ~q.force
                 /\ local.ok /\ local.head # <<>>
                 /\ q.answers.base1 = "ok"
                 /\ q.answers.status.code = "ok"
                 /\ q.answers.status.head_hash # <<>>
                 /\ q.answers.status.head_hash # local.head) =>
                   /\ ~Sent(POST_PUSH)
                   /\ ~ret.early
                   /\ q.response = <<[success |-> FALSE, error |-> CONFLICT]>>
             /\ q.force =>
                   /\ ~Sent(GET_STATUS)
                   /\ Sent(POST_PUSH) <=>
                         /\ model.exists /\ local.ok
                         /\ \/ q.answers.base2 = "ok"
                            \/ q.answers.base2 = "404" /\ q.answers.create = "ok")

\* a push without force met a remote head other than the local one
C34_Witness ==
    /\ ret.op = "push"
    /\ ~ret.val.force
    /\ ret.val.sent = <<GET_BASE, GET_STATUS>>
    /\ ret.val.response = <<[success |-> FALSE, error |-> CONFLICT]>>
    /\ get_local_head(model.exists, store.file).head # <<>>

\* the offsets of the file at which a record of blob b starts
RecordsOf(b) ==
    {o \in DOMAIN store.file.data : store.file.data[o].rec = <<"blob", Compress(b)>>}

\* C35: when two threads put the same blob at once, the file holds the blob's
\* record at most once and the write cursor has advanced by the record's
\* size once, whichever way their steps interleave
C35_PutOnce ==
    [](\A b \in StoreBlobs :
          /\ Cardinality(RecordsOf(b)) <= 1
          /\ (\A c \in StoreBlobs \ {b} : RecordsOf(c) = {} /\ ~contains(store, BlobHash(c)))
                => store.write_offset <= HEADER_SIZE + CompressedLen(b))

(***************************************************************************)
(* The ref operations of ObjectStore, guard by guard, and parking_lot's    *)
(* RwLock (file_store.rs:26), whose write() first closes the lock to new   *)
(* readers and writers and then waits for the readers inside to leave.     *)
(***************************************************************************)
\* the guards taken and dropped by set_head, head_commit, set_ref,
\* create_branch and delete_branch, in program order
RefProgram(op) ==
    CASE op = "set_head" ->
            <<Acq("refs", "read"), Rel({"refs"}, "refs.contains_key"),
              Acq("head", "write"), Rel({"head"}, "head.assign")>>
      [] op = "head_commit" ->
            <<Acq("head", "read"), Acq("refs", "read"),
              Rel({"refs", "head"}, "refs.get")>>
      [] op = "set_ref" ->
            <<Acq("refs", "write"), Rel({"refs"}, "refs.insert")>>
      [] op = "create_branch" ->
            <<Acq("refs", "write"), Rel({"refs"}, "refs.try_insert")>>
      [] op = "delete_branch" ->
            <<Acq("head", "read"), Rel({"head"}, "head.compare"),
              Acq("refs", "write"), Rel({"refs"}, "refs.remove")>>
      [] OTHER -> Program(op)

\* the step thread t executes next, a step of no program when it is idle
NextStep(t) ==
    IF pc[t].i <= Len(RefProgram(pc[t].op)) THEN RefProgram(pc[t].op)[pc[t].i]
    ELSE Rel({}, "idle")

\* the guards thread t holds
Guards(t) == HeldAfter(RefProgram(pc[t].op), pc[t].i - 1)

\* thread t is inside write() on the lock: it has closed it and waits
Closing(t, lock) ==
    /\ t \in model.closing
    /\ NextStep(t).do = "acquire"
    /\ NextStep(t).lock = lock

\* thread u holds the lock in the mode
Holding(u, lock, mode) ==
    \E k \in 1..Len(Guards(u)) : Guards(u)[k] = <<lock, mode>>

RefAt(t, op, block) == pc[t].op = op /\ NextStep(t).do = block

\* read(): enters unless a writer holds the lock or has closed it
FairRead(t) ==
    /\ NextStep(t).do = "acquire"
    /\ NextStep(t).mode = "read"
    /\ \A u \in DOMAIN pc \ {t} :
          ~Holding(u, NextStep(t).lock, "write") /\ ~Closing(u, NextStep(t).lock)
    /\ Goto(t, pc[t].local)
    /\ UNCHANGED <<store, root, model, ret, wt, synced, nops>>

\* write(), first half: closes the lock unless a writer holds or closed it
FairClose(t) ==
    /\ NextStep(t).do = "acquire"
    /\ NextStep(t).mode = "write"
    /\ t \notin model.closing
    /\ \A u \in DOMAIN pc \ {t} :
          ~Holding(u, NextStep(t).lock, "write") /\ ~Closing(u, NextStep(t).lock)
    /\ model' = [model EXCEPT !.closing = @ \cup {t}]
    /\ UNCHANGED <<store, pc, root, ret, wt, synced, nops>>

\* write(), second half: enters when the last reader has left
FairWrite(t) ==
    /\ t \in model.closing
    /\ \A u \in DOMAIN pc \ {t} : ~Holding(u, NextStep(t).lock, "read")
    /\ model' = [model EXCEPT !.closing = @ \ {t}]
    /\ Goto(t, pc[t].local)
    /\ UNCHANGED <<store, root, ret, wt, synced, nops>>

\* set_head: if !refs.contains_key(ref_name) { return Err(RefNotFound) }
SetHeadContains(t) ==
    /\ RefAt(t, "set_head", "refs.contains_key")
    /\ IF pc[t].arg \in DOMAIN store.refs
       THEN Goto(t, ZERO) /\ ret' = ret
       ELSE Return(t, "RefNotFound", TRUE)
    /\ UNCHANGED <<store, root, model, wt, synced, nops>>

\* set_head: *self.head.write() = ref_name.to_string()
SetHeadAssign(t) ==
    /\ RefAt(t, "set_head", "head.assign")
    /\ store' = [store EXCEPT !.head = pc[t].arg]
    /\ Return(t, ZERO, FALSE)
    /\ UNCHANGED <<root, model, wt, synced, nops>>

\* head_commit: refs.get(head).copied().filter(|h| !h.is_zero())
HeadCommitGet(t) ==
    /\ RefAt(t, "head_commit", "refs.get")
    /\ Return(t, head_commit(store), FALSE)
    /\ UNCHANGED <<store, root, model, wt, synced, nops>>

\* set_ref: refs.insert(ref_name, commit_hash)
SetRefInsert(t) ==
    /\ RefAt(t, "set_ref", "refs.insert")
    /\ store' = set_ref(store, pc[t].arg, ZERO)
    /\ Return(t, ZERO, FALSE)
    /\ UNCHANGED <<root, model, wt, synced, nops>>

\* create_branch: Err when the name is a ref, refs.insert otherwise
CreateBranchInsert(t) ==
    /\ RefAt(t, "create_branch", "refs.try_insert")
    /\ IF pc[t].arg \in DOMAIN store.refs
       THEN Return(t, "BranchNotFound", TRUE) /\ store' = store
       ELSE Return(t, ZERO, FALSE) /\ store' = set_ref(store, pc[t].arg, ZERO)
    /\ UNCHANGED <<root, model, wt, synced, nops>>

\* delete_branch: if head.as_str() == name { return Err(..) }
DeleteBranchCompare(t) ==
    /\ RefAt(t, "delete_branch", "head.compare")
    /\ IF store.head = pc[t].arg
       THEN Return(t, "BranchNotFound", TRUE)
       ELSE Goto(t, ZERO) /\ ret' = ret
    /\ UNCHANGED <<store, root, model, wt, synced, nops>>

\* delete_branch: refs.remove(name).ok_or_else(..)?
DeleteBranchRemove(t) ==
    /\ RefAt(t, "delete_branch", "refs.remove")
    /\ IF pc[t].arg \in DOMAIN store.refs
       THEN Return(t, ZERO, FALSE) /\ store' = [store EXCEPT !.refs = Without(@, pc[t].arg)]
       ELSE Return(t, "BranchNotFound", TRUE) /\ store' = store
    /\ UNCHANGED <<root, model, wt, synced, nops>>

(***************************************************************************)
(* Specification SpecFair: four threads on one new ObjectStore, each       *)
(* making one call.  Thread 1 calls put or sync, thread 2 get, head_commit *)
(* or delete_branch, thread 3 set_ref or create_branch and thread 4        *)
(* set_head; their steps interleave freely.                                *)
(***************************************************************************)
FairThreads == 1..4

FairBlob == Blob("Thought", <<"Thought", "x">>)

InitFair ==
    /\ store = create
    /\ pc = [t \in FairThreads |-> NotCalling]
    /\ root = Empty
    /\ model = [closing |-> {}, called |-> {}]
    /\ ret = Ret("create", ZERO)
    /\ wt = EmptyWT
    /\ synced = NeverSynced
    /\ nops = 0

FairCall(t, op, arg) ==
    /\ t \notin model.called
    /\ model' = [model EXCEPT !.called = @ \cup {t}]
    /\ nops' = nops + 1
    /\ pc' = [pc EXCEPT ![t] = [op |-> op, i |-> 1, arg |-> arg, local |-> ZERO]]
    /\ UNCHANGED <<store, root, ret, wt, synced>>

NextFair ==
    \/ FairCall(1, "put", FairBlob)
    \/ FairCall(1, "sync", ZERO)
    \/ FairCall(2, "get", BlobHash(FairBlob))
    \/ FairCall(2, "head_commit", ZERO)
    \/ FairCall(2, "delete_branch", FEATURE)
    \/ FairCall(3, "set_ref", FEATURE)
    \/ FairCall(3, "create_branch", FEATURE)
    \/ \E name \in StoreNames : FairCall(4, "set_head", name)
    \/ \E t \in FairThreads : FairRead(t)
    \/ \E t \in FairThreads : FairClose(t)
    \/ \E t \in FairThreads : FairWrite(t)
    \/ PutContains(1)
    \/ PutWrite(1)
    \/ PutInsert(1)
    \/ SyncCopy(1)
    \/ SyncAll(1)
    \/ GetEntry(2)
    \/ GetRead(2)
    \/ HeadCommitGet(2)
    \/ DeleteBranchCompare(2)
    \/ DeleteBranchRemove(2)
    \/ SetRefInsert(3)
    \/ CreateBranchInsert(3)
    \/ SetHeadContains(4)
    \/ SetHeadAssign(4)

SpecFair == InitFair /\ [][NextFair]_vars

\* C36: whichever way the steps of a set_head(x) and a delete_branch(x)
\* interleave, HEAD names a ref of the refs table
C36_HeadInRefs == [](store.head \in DOMAIN store.refs)

\* thread t is in a call and its next step can be taken
CanStep(t) ==
    /\ pc[t].op # "idle"
    /\ NextStep(t).do = "acquire" =>
          IF NextStep(t).mode = "read" \/ t \notin model.closing
          THEN \A u \in DOMAIN pc \ {t} :
                  /\ ~Holding(u, NextStep(t).lock, "write")
                  /\ ~Closing(u, NextStep(t).lock)
          ELSE \A u \in DOMAIN pc \ {t} : ~Holding(u, NextStep(t).lock, "read")

\* C37: no interleaving of the operations reaches a deadlock: while a
\* thread is in a call, some thread in a call can take its next step
C37_NoDeadlock ==
    []((\E t \in DOMAIN pc : pc[t].op # "idle") => \E t \in DOMAIN pc : CanStep(t))

(***************************************************************************)
(* Specification SpecKeys: a new database on which edges are related,      *)
(* unrelated and committed, between ids some of which hold a ':'.  model   *)
(* is the set of edges related and not unrelated since.                    *)
(***************************************************************************)
MaxKeyOps == 4

ID_C == <<99>>
ID_A_B == ID_A \o COLON \o ID_B
ID_B_C == ID_B \o COLON \o ID_C

KeyEdges == {Edge(s, t, REL) : s \in {ID_A, ID_A_B}, t \in {ID_C, ID_B_C}}

InitKeys ==
    /\ store = create
    /\ wt = EmptyWT
    /\ pc = Idle
    /\ root = Empty
    /\ model = {}
    /\ ret = Ret("create", ZERO)
    /\ synced = NeverSynced
    /\ nops = 0

KeyStep == nops < MaxKeyOps /\ nops' = nops + 1

KeyRelate(e) ==
    /\ KeyStep
    /\ wt' = relate(wt, e.source, e.target, e.edge_type)
    /\ model' = model \cup {e}
    /\ ret' = Ret("relate", e)
    /\ UNCHANGED <<store, pc, root, synced>>

KeyUnrelate(e) ==
    /\ KeyStep
    /\ wt' = unrelate(wt, e.source, e.target, e.edge_type)
    /\ model' = model \ {e}
    /\ ret' = Ret("unrelate", e)
    /\ UNCHANGED <<store, pc, root, synced>>

KeyCommit(order) ==
    /\ KeyStep
    /\ \E r \in {commit_with_author(store, wt, order, "m")} :
          /\ store' = r.store
          /\ wt' = r.wt
          /\ ret' = RetOk("commit", r.ok, r.hash)
    /\ UNCHANGED <<pc, root, model, synced>>

NextKeys ==
    \/ \E e \in KeyEdges : KeyRelate(e)
    \/ \E e \in KeyEdges : KeyUnrelate(e)
    \/ \E order \in CommitOrders : KeyCommit(order)

SpecKeys == InitKeys /\ [][NextKeys]_vars

\* C38: edges that differ in source, target or type have different keys, so
\* every edge related and not unrelated since is an edge of the database,
\* pending or committed, next to the others: relating a second edge or
\* unrelating another one never takes it away
C38_EdgeKeyInjective ==
    [](/\ \A e, f \in model : edge_key(e) = edge_key(f) => e = f
       /\ model \subseteq OverlayEdges(store, wt))

(***************************************************************************)
(* A commit that fails part-way.  Every call of commit_with_author that    *)
(* can fail ends in `?`: store.put_thought and trie.insert in the upsert   *)
(* loops, trie.remove in the tombstone loops, trie.commit, and put_commit  *)
(* in BranchManager::commit.  at counts these calls' items in program      *)
(* order: the item at fails, after its blob was written when written says  *)
(* so; one past the last item trie.commit fails, two past it put_commit.   *)
(***************************************************************************)
\* the iteration orders cut after the first n items of the four loops
FirstItems(order, n) ==
    With(Len(order.thoughts), LAMBDA n1 :
    With(n1 + Len(order.removed_thoughts), LAMBDA n2 :
    With(n2 + Len(order.edges), LAMBDA n3 :
    [thoughts |-> Take(order.thoughts, Min(n, n1)),
     removed_thoughts |-> Take(order.removed_thoughts,
                               Min(IF n > n1 THEN n - n1 ELSE 0,
                                   Len(order.removed_thoughts))),
     edges |-> Take(order.edges, Min(IF n > n2 THEN n - n2 ELSE 0, Len(order.edges))),
     removed_edges |-> Take(order.removed_edges,
                            Min(IF n > n3 THEN n - n3 ELSE 0,
                                Len(order.removed_edges)))])))

\* the number of items of the four loops
Items(order) ==
    Len(order.thoughts) + Len(order.removed_thoughts) + Len(order.edges)
        + Len(order.removed_edges)

\* the blob of the item at, when the item is an upsert: <<>> or <<blob>>
ItemBlob(W, order, at) ==
    IF at <= Len(order.thoughts)
    THEN <<Blob("Thought", <<"Thought", W.thoughts[order.thoughts[at]]>>)>>
    ELSE With(at - Len(order.thoughts) - Len(order.removed_thoughts), LAMBDA e :
         IF e >= 1 /\ e <= Len(order.edges)
         THEN <<Blob("Edge", <<"Edge", W.edges[order.edges[e]]>>)>>
         ELSE <<>>)

\* a failing commit that clears the working tree before it builds the tree
commit_failing_Clear(S, W, order, at, written) ==
    [ok |-> FALSE, store |-> S, wt |-> EmptyWT, hash |-> NONE, err |-> "Io"]

\* Database::commit_with_author when the call at returns an error
commit_failing(S, W, order, at, written) ==
    With(ApplyWorkingTree(S, W, FirstItems(order, at - 1),
                          from_root(S, head_tree(S).tree).node), LAMBDA applied :
        IF at <= Items(order)
        THEN [ok |-> FALSE,
              store |-> IF written /\ ItemBlob(W, order, at) # <<>>
                        THEN put(applied.store, ItemBlob(W, order, at)[1]).store
                        ELSE applied.store,
              wt |-> W, hash |-> NONE, err |-> "Io"]
        ELSE IF at = Items(order) + 1
        THEN [ok |-> FALSE, store |-> applied.store, wt |-> W, hash |-> NONE,
              err |-> "Io"]
        ELSE [ok |-> FALSE, store |-> trie_commit(applied.store, applied.node).store,
              wt |-> W, hash |-> NONE, err |-> "Io"])

(***************************************************************************)
(* Specification SpecCommitFail: the database of Spec on its main branch,  *)
(* with thoughts and an edge created and deleted, commits that succeed and *)
(* commits in which one of the fallible calls returns an error.            *)
(***************************************************************************)
CommitFails(order, at, written) ==
    /\ DbStep
    /\ CommitCount(store) < MaxCommits
    /\ Items(order) > 0
    /\ at \in 1..(Items(order) + 2)
    /\ \E r \in {commit_failing(store, wt, order, at, written)} :
          /\ store' = r.store
          /\ wt' = r.wt
          /\ ret' = [op |-> "commit_io_error", early |-> TRUE,
                     val |-> [order |-> order, at |-> at,
                              objects |-> object_count(store)]]
    /\ UNCHANGED <<pc, root, model, synced>>

NextCommitFail ==
    \/ \E id \in Ids : CreateThoughtWithId(id, "c1")
    \/ \E id \in Ids : DeleteThought(id)
    \/ Relate
    \/ Unrelate
    \/ \E order \in CommitOrders : CommitWithAuthor(order)
    \/ \E order \in CommitOrders, written \in BOOLEAN :
          \E at \in 1..(Items(order) + 2) : CommitFails(order, at, written)

SpecCommitFail == InitDb /\ [][NextCommitFail]_vars

\* C39: a commit that fails part-way leaves every ref and HEAD as they were
\* and the working tree with all its upserts and tombstones and the dirty
\* flag set, and the same commit, tried again, succeeds with the commit it
\* would have made
C39_CommitRetry ==
    [][ret'.op = "commit_io_error" /\ nops' # nops =>
          /\ store'.refs = store.refs
          /\ store'.head = store.head
          /\ wt' = wt
          /\ wt'.dirty
          /\ \A again \in {commit_with_author(store', wt', ret'.val.order, "m")} :
             \A first \in {commit_with_author(store, wt, ret'.val.order, "m")} :
                /\ again.ok
                /\ again.hash = first.hash
                /\ again.store.refs = first.store.refs
                /\ again.wt = EmptyWT]_vars

\* a second commit failed after blobs were written, with an upsert and a
\* tombstone pending
C39_Witness ==
    /\ ret.op = "commit_io_error"
    /\ CommitCount(store) > 0
    /\ object_count(store) > ret.val.objects
    /\ DOMAIN wt.thoughts # {}
    /\ wt.removed_thoughts # {}

====
